---- MODULE Spec2Model ----
(***************************************************************************)
(* A model of cim-contextgraph: the ContextGraph facade over petgraph      *)
(* (src/src/context_graph.rs), the CidDag over daggy (src/src/cid_dag.rs)  *)
(* and the ComponentStorage (src/src/types.rs).                            *)
(*                                                                         *)
(* Conventions.  Vec / petgraph indices are 1-based here (index i of the   *)
(* model is index i-1 of the code).  Uuid::new_v4() is modelled by a       *)
(* counter: an id is fresh, never reused, and ids are minted in increasing *)
(* order, so the order of EdgeIds is the order in which edges were added.  *)
(* An Option or Result is a record with a tag; absent fields hold 0, ""    *)
(* or the empty entry.                                                     *)
(***************************************************************************)
EXTENDS Integers, Sequences, FiniteSets, TLC

\* ---------------------------------------------------------------- bounds
MaxNodes == 2
MaxEdges == 2
MaxInvariants == 1
MaxCids == 2
MaxDagEdges == 2
MaxNestNodes == 3
MaxRegistered == 2
MaxNestEdges == 1
MaxTransitions == 2

\* ---------------------------------------------------------------- inputs
NodeValues == {"A", "B"}
PlainNodeValues == {"A"}
MaxLengths == {0, 1, 2}
WorkflowStates == {[id |-> "Draft", terminal |-> FALSE], [id |-> "Draft", terminal |-> TRUE],
                   [id |-> "Published", terminal |-> TRUE]}
StateIds == {"Draft", "Published"}
TransitionKinds == {[accepts |-> TRUE, guard |-> TRUE], [accepts |-> TRUE, guard |-> FALSE],
                    [accepts |-> FALSE, guard |-> TRUE]}
BusinessValues == {[monetary_value |-> 0, time_cost |-> 0, risk_factor |-> 0],
                   [monetary_value |-> 50, time_cost |-> 120, risk_factor |-> 50]}
EdgeValues == {"x"}
InvariantKinds == {"Acyclic", "NoSelfLoop", "Rejecting"}
NodeIds == 1..MaxNodes
EdgeIds == 1..MaxEdges
Cids == 1..MaxCids
Contents == {"First"}
Timestamps == {1000}
NodePayloads == {<<"First", 1000>>, <<"Duplicate", 2000>>}
ChainCids == {1, 2, 3}
TypedCids == {1, 2}
GraphHandles == {1, 2, 3}
ChunkLists == {<<>>} \cup {<<c>> : c \in ChainCids}
                  \cup {<<c, d>> : c \in ChainCids, d \in ChainCids}
Owners == {"node", "edge"}
ComponentTypes == {"Label", "Metadata", "GraphReference"}
ComponentValues == {"v1", "v2"}

VARIABLES
    graph_nodes,      \* ContextGraph.graph: petgraph node array (NodeEntry weights)
    graph_edges,      \* ContextGraph.graph: petgraph edge array (EdgeEntry weight + endpoints)
    node_id_map,      \* HashMap<NodeId, NodeIndex>
    edge_id_map,      \* HashMap<EdgeId, EdgeIndex>
    node_index_map,   \* HashMap<NodeIndex, NodeId>
    edge_index_map,   \* HashMap<EdgeIndex, EdgeId>
    invariants,       \* Vec<Box<dyn GraphInvariant>>
    next_node_id,     \* the NodeId the next NodeId::new() mints
    next_edge_id,     \* the EdgeId the next EdgeId::new() mints
    last,             \* the last ContextGraph call, its arguments and what it returned
    dag_nodes,        \* CidDag.dag: node array of the daggy Dag (CidNode weights)
    dag_edges,        \* CidDag.dag: edge array of the daggy Dag (edge_type + endpoints)
    cid_index,        \* HashMap<Cid, NodeIndex>
    node_to_cid,      \* HashMap<NodeIndex, Cid>
    roots,            \* Vec<Cid>
    leaves,           \* Vec<Cid>
    dag_last,         \* the last CidDag call, its arguments and what it returned
    components,       \* the ComponentStorage of a NodeEntry and of an EdgeEntry
    comp_last,        \* the last ComponentStorage call, its arguments and what it returned
    nest_graphs,      \* ContextGraphs that own each other through Subgraph components
    nest_last,        \* the last recursive query on them and what it returned
    wf_states,        \* WorkflowGraph.graph: node array of the StableGraph (states)
    wf_transitions,   \* WorkflowGraph.graph: edge array (transition + endpoints)
    enrichment,       \* HashMap<EdgeIndex, V>
    state_to_node,    \* HashMap<StateId, NodeIndex>
    node_to_state,    \* HashMap<NodeIndex, StateId>
    wf_last           \* the last WorkflowGraph call, its arguments and what it returned

graph_vars == <<graph_nodes, graph_edges, node_id_map, edge_id_map,
                node_index_map, edge_index_map, invariants,
                next_node_id, next_edge_id>>

dag_vars == <<dag_nodes, dag_edges, cid_index, node_to_cid, roots, leaves>>

nest_vars == <<nest_graphs, nest_last>>

workflow_vars == <<wf_states, wf_transitions, enrichment, state_to_node, node_to_state, wf_last>>

vars == <<graph_nodes, graph_edges, node_id_map, edge_id_map,
          node_index_map, edge_index_map, invariants,
          next_node_id, next_edge_id, last,
          dag_nodes, dag_edges, cid_index, node_to_cid, roots, leaves, dag_last,
          components, comp_last, nest_graphs, nest_last,
          wf_states, wf_transitions, enrichment, state_to_node, node_to_state, wf_last>>

\* what a ContextGraph call leaves alone
not_graph == <<dag_nodes, dag_edges, cid_index, node_to_cid, roots, leaves, dag_last,
               components, comp_last, nest_graphs, nest_last,
               wf_states, wf_transitions, enrichment, state_to_node, node_to_state, wf_last>>

\* what a CidDag call leaves alone
not_dag == <<graph_nodes, graph_edges, node_id_map, edge_id_map,
             node_index_map, edge_index_map, invariants,
             next_node_id, next_edge_id, last, components, comp_last,
             nest_graphs, nest_last,
             wf_states, wf_transitions, enrichment, state_to_node, node_to_state, wf_last>>

\* what a ComponentStorage call leaves alone
not_components == <<graph_nodes, graph_edges, node_id_map, edge_id_map,
                    node_index_map, edge_index_map, invariants,
                    next_node_id, next_edge_id, last,
                    dag_nodes, dag_edges, cid_index, node_to_cid, roots, leaves, dag_last,
                    nest_graphs, nest_last,
                    wf_states, wf_transitions, enrichment, state_to_node, node_to_state, wf_last>>

\* what a call on the nested graphs leaves alone
not_nested == <<graph_nodes, graph_edges, node_id_map, edge_id_map,
                node_index_map, edge_index_map, invariants,
                next_node_id, next_edge_id, last,
                dag_nodes, dag_edges, cid_index, node_to_cid, roots, leaves, dag_last,
                components, comp_last,
                wf_states, wf_transitions, enrichment, state_to_node, node_to_state, wf_last>>

\* what a WorkflowGraph call leaves alone
not_workflow == <<graph_nodes, graph_edges, node_id_map, edge_id_map,
                  node_index_map, edge_index_map, invariants,
                  next_node_id, next_edge_id, last,
                  dag_nodes, dag_edges, cid_index, node_to_cid, roots, leaves, dag_last,
                  components, comp_last, nest_graphs, nest_last>>

\* ------------------------------------------------------------ containers
EmptyMap == [k \in {} |-> 0]

\* HashMap::insert: a present key is overwritten
MapInsert(m, k, v) == [x \in (DOMAIN m) \cup {k} |-> IF x = k THEN v ELSE m[x]]

\* swap_remove written as pop: the last element is dropped whatever i is
SwapRemove_pop(s, i) == [k \in 1..(Len(s) - 1) |-> s[k]]

\* Vec::swap_remove: the last element takes the place of the removed one
SwapRemove(s, i) ==
    [k \in 1..(Len(s) - 1) |-> IF k = i THEN s[Len(s)] ELSE s[k]]

\* ------------------------------------------------------- entries, results
NodeEntry(id, value) == [id |-> id, value |-> value]
EdgeEntry(id, source, target, value) ==
    [id |-> id, source |-> source, target |-> target, value |-> value]
NoNode == NodeEntry(0, "")
NoEdge == EdgeEntry(0, 0, 0, "")

OkResult == [tag |-> "Ok", err |-> "", id |-> 0, msg |-> ""]
OkId(id) == [tag |-> "Ok", err |-> "", id |-> id, msg |-> ""]
Err(e, id, msg) == [tag |-> "Err", err |-> e, id |-> id, msg |-> msg]

\* ------------------------------------------------------ petgraph::Graph
\* Graph::add_node: push, the new index is the old length
pet_add_node(nodes, weight) == Append(nodes, weight)

\* Graph::add_edge: push the edge with its two endpoint indices
pet_add_edge(edges, a, b, weight) == Append(edges, [w |-> weight, node |-> <<a, b>>])

\* Graph::remove_edge: unlink and swap_remove; the edge that was last gets index e
pet_remove_edge(edges, e) == SwapRemove(edges, e)

\* Graph::remove_node, first half: for direction k (1 outgoing, 2 incoming)
\* remove the head of a's edge list until the list is empty.  The head of an
\* edge list is the edge added last.
RECURSIVE pet_remove_incident(_, _, _)
pet_remove_incident(edges, a, k) ==
    LET inc == {i \in 1..Len(edges) : edges[i].node[k] = a}
    IN  IF inc = {} THEN edges
        ELSE LET head == CHOOSE i \in inc : \A j \in inc : edges[j].w.id <= edges[i].w.id
             IN  pet_remove_incident(pet_remove_edge(edges, head), a, k)

\* remove_node that forgets the incoming edges of the removed node
pet_remove_node_outgoing_only(nodes, edges, a) ==
    LET e1 == pet_remove_incident(edges, a, 1)
        old_index == Len(nodes)
        e2 == [i \in 1..Len(e1) |->
                 [e1[i] EXCEPT !.node = [k \in 1..2 |->
                     IF e1[i].node[k] = old_index THEN a ELSE e1[i].node[k]]]]
    IN  [nodes |-> SwapRemove(nodes, a), edges |-> e2]

\* Graph::remove_node: remove the incident edges, swap_remove the node, and
\* re-point the edges of the node that moved from the last index to index a
pet_remove_node(nodes, edges, a) ==
    LET e1 == pet_remove_incident(pet_remove_incident(edges, a, 1), a, 2)
        old_index == Len(nodes)
        e2 == [i \in 1..Len(e1) |->
                 [e1[i] EXCEPT !.node = [k \in 1..2 |->
                     IF e1[i].node[k] = old_index THEN a ELSE e1[i].node[k]]]]
    IN  [nodes |-> SwapRemove(nodes, a), edges |-> e2]

\* Graph::node_weight / edge_weight: None when the index is out of range
node_weight(nodes, idx) == IF idx \in 1..Len(nodes) THEN nodes[idx] ELSE NoNode
edge_weight(edges, idx) == IF idx \in 1..Len(edges) THEN edges[idx].w ELSE NoEdge

\* --------------------------------------------------------- ContextGraph
\* ContextGraph::get_node, as a function of the fields it reads
get_node_in(map, nodes, id) ==
    IF id \in DOMAIN map THEN node_weight(nodes, map[id]) ELSE NoNode

\* ContextGraph::get_edge, as a function of the fields it reads
get_edge_in(map, edges, id) ==
    IF id \in DOMAIN map THEN edge_weight(edges, map[id]) ELSE NoEdge

get_node(id) == get_node_in(node_id_map, graph_nodes, id)
get_edge(id) == get_edge_in(edge_id_map, graph_edges, id)

\* ContextGraph::node_count, edge_count
node_count == Len(graph_nodes)
edge_count == Len(graph_edges)

\* GraphInvariant::check of the invariants the library and its tests provide
invariant_check(kind, edges) ==
    CASE kind = "Acyclic" -> OkResult
      [] kind = "NoSelfLoop" ->
            IF \E i \in 1..Len(edges) : edges[i].w.source = edges[i].w.target
            THEN Err("InvariantViolation", 0, "Self-loops are not allowed")
            ELSE OkResult
      [] kind = "Rejecting" -> Err("InvariantViolation", 0, "Always reject")

\* ContextGraph::check_invariants: in registration order, the first failure
RECURSIVE check_invariants_from(_, _, _)
check_invariants_from(invs, i, edges) ==
    IF i > Len(invs) THEN OkResult
    ELSE LET r == invariant_check(invs[i], edges)
         IN  IF r.tag = "Err" THEN r ELSE check_invariants_from(invs, i + 1, edges)

\* a check that goes through all invariants and keeps the last failure
check_invariants_last_failure(invs, edges) ==
    LET failing == {i \in 1..Len(invs) : invariant_check(invs[i], edges).tag = "Err"}
    IN  IF failing = {} THEN OkResult
        ELSE invariant_check(invs[CHOOSE i \in failing : \A j \in failing : j <= i], edges)

check_invariants(invs, edges) == check_invariants_from(invs, 1, edges)

\* CidDag::new
InitDag ==
    /\ dag_nodes = <<>>
    /\ dag_edges = <<>>
    /\ cid_index = EmptyMap
    /\ node_to_cid = EmptyMap
    /\ roots = <<>>
    /\ leaves = <<>>
    /\ dag_last = [op |-> "new", a1 |-> 0, a2 |-> 0, res |-> OkResult, chain |-> <<>>]

\* ComponentStorage::new, for the storage of a node entry and of an edge entry
InitComponents ==
    /\ components = [o \in Owners |-> {}]
    /\ comp_last = [op |-> "new", owner |-> "", type |-> "", value |-> "", res |-> OkResult]

\* no recursive query has been made since the graphs were last changed
NoQuery == [op |-> "none", g |-> 0, visits |-> <<>>, total |-> 0, panicked |-> FALSE]

\* no ContextGraph has been constructed for the recursive queries yet
InitNested ==
    /\ nest_graphs = <<>>
    /\ nest_last = NoQuery

\* WorkflowGraph::new_with_name: no state, no transition, empty indices
InitWorkflow ==
    /\ wf_states = <<>>
    /\ wf_transitions = <<>>
    /\ enrichment = EmptyMap
    /\ state_to_node = EmptyMap
    /\ node_to_state = EmptyMap
    /\ wf_last = [op |-> "new", state |-> "", res |-> OkResult, ref |-> 0]

Init ==
    /\ InitDag
    /\ InitComponents
    /\ InitNested
    /\ InitWorkflow
    /\ graph_nodes = <<>>
    /\ graph_edges = <<>>
    /\ node_id_map = EmptyMap
    /\ edge_id_map = EmptyMap
    /\ node_index_map = EmptyMap
    /\ edge_index_map = EmptyMap
    /\ invariants = <<>>
    /\ next_node_id = 1
    /\ next_edge_id = 1
    /\ last = [op |-> "new", a1 |-> 0, a2 |-> 0, res |-> OkResult, node |-> NoNode]

\* graph.invariants.push(Box::new(kind))
push_invariant(kind) ==
    /\ Len(invariants) < MaxInvariants
    /\ invariants' = Append(invariants, kind)
    /\ last' = [op |-> "push_invariant", a1 |-> 0, a2 |-> 0, res |-> OkResult, node |-> NoNode]
    /\ UNCHANGED <<graph_nodes, graph_edges, node_id_map, edge_id_map,
                   node_index_map, edge_index_map, next_node_id, next_edge_id>>
    /\ UNCHANGED not_graph

\* ContextGraph::add_node
add_node(value) ==
    /\ next_node_id <= MaxNodes
    /\ LET node_id == next_node_id
           node_index == Len(graph_nodes) + 1
       IN  /\ graph_nodes' = pet_add_node(graph_nodes, NodeEntry(node_id, value))
           /\ node_id_map' = MapInsert(node_id_map, node_id, node_index)
           /\ node_index_map' = MapInsert(node_index_map, node_index, node_id)
           /\ next_node_id' = next_node_id + 1
           /\ last' = [op |-> "add_node", a1 |-> 0, a2 |-> 0, res |-> OkId(node_id), node |-> NoNode]
    /\ UNCHANGED <<graph_edges, edge_id_map, edge_index_map, invariants, next_edge_id>>
    /\ UNCHANGED not_graph

\* endpoint lookups that report the target whichever endpoint is missing
lookup_endpoints_wrong_id(map, source, target) ==
    IF source \notin DOMAIN map THEN Err("NodeNotFound", target, "")
    ELSE IF target \notin DOMAIN map THEN Err("NodeNotFound", target, "")
    ELSE OkResult

\* ContextGraph::add_edge, lines 116-123: the two endpoint lookups, source first
lookup_endpoints(map, source, target) ==
    IF source \notin DOMAIN map THEN Err("NodeNotFound", source, "")
    ELSE IF target \notin DOMAIN map THEN Err("NodeNotFound", target, "")
    ELSE OkResult

\* ContextGraph::add_edge
add_edge(source, target, value) ==
    /\ UNCHANGED not_graph
    /\ LET found == lookup_endpoints(node_id_map, source, target)
       IN  IF found.tag = "Err"
           THEN /\ last' = [op |-> "add_edge", a1 |-> source, a2 |-> target,
                            res |-> found, node |-> NoNode]
                /\ UNCHANGED graph_vars
           ELSE /\ next_edge_id <= MaxEdges
                /\ LET edge_id == next_edge_id
                       edge_index == Len(graph_edges) + 1
                       edges2 == pet_add_edge(graph_edges, node_id_map[source],
                                              node_id_map[target],
                                              EdgeEntry(edge_id, source, target, value))
                       checked == check_invariants(invariants, edges2)
                   IN  /\ graph_edges' = edges2
                       /\ edge_id_map' = MapInsert(edge_id_map, edge_id, edge_index)
                       /\ edge_index_map' = MapInsert(edge_index_map, edge_index, edge_id)
                       /\ next_edge_id' = next_edge_id + 1
                       /\ last' = [op |-> "add_edge", a1 |-> source, a2 |-> target,
                                   res |-> IF checked.tag = "Err" THEN checked
                                           ELSE OkId(edge_id),
                                   node |-> NoNode]
                /\ UNCHANGED <<graph_nodes, node_id_map, node_index_map,
                               invariants, next_node_id>>

\* a rebuild that stops one index early
RECURSIVE rebuild_id_map_short(_, _, _)
rebuild_id_map_short(ids, i, m) ==
    IF i >= Len(ids) THEN m ELSE rebuild_id_map_short(ids, i + 1, MapInsert(m, ids[i], i))

\* ContextGraph::remove_node, lines 312-325: the maps rebuilt from the weights,
\* one insert per index in index order
RECURSIVE rebuild_id_map(_, _, _)
rebuild_id_map(ids, i, m) ==
    IF i > Len(ids) THEN m ELSE rebuild_id_map(ids, i + 1, MapInsert(m, ids[i], i))

RECURSIVE rebuild_index_map(_, _, _)
rebuild_index_map(ids, i, m) ==
    IF i > Len(ids) THEN m ELSE rebuild_index_map(ids, i + 1, MapInsert(m, i, ids[i]))

node_ids_of(nodes) == [i \in 1..Len(nodes) |-> nodes[i].id]
edge_ids_of(edges) == [i \in 1..Len(edges) |-> edges[i].w.id]

\* remove_node that clears the four id maps before it looks the id up
remove_node_clear_first(node_id) ==
    /\ UNCHANGED not_graph
    /\ IF node_id \in DOMAIN node_id_map
       THEN LET node_idx == node_id_map[node_id]
                node_data == node_weight(graph_nodes, node_idx)
                g == pet_remove_node(graph_nodes, graph_edges, node_idx)
            IN  /\ graph_nodes' = g.nodes
                /\ graph_edges' = g.edges
                /\ node_id_map' = rebuild_id_map(node_ids_of(g.nodes), 1, EmptyMap)
                /\ node_index_map' = rebuild_index_map(node_ids_of(g.nodes), 1, EmptyMap)
                /\ edge_id_map' = rebuild_id_map(edge_ids_of(g.edges), 1, EmptyMap)
                /\ edge_index_map' = rebuild_index_map(edge_ids_of(g.edges), 1, EmptyMap)
                /\ last' = [op |-> "remove_node", a1 |-> node_id, a2 |-> 0,
                            res |-> [OkResult EXCEPT !.tag = "Some"], node |-> node_data]
                /\ UNCHANGED <<invariants, next_node_id, next_edge_id>>
       ELSE /\ last' = [op |-> "remove_node", a1 |-> node_id, a2 |-> 0,
                        res |-> [OkResult EXCEPT !.tag = "None"], node |-> NoNode]
            /\ node_id_map' = EmptyMap
            /\ node_index_map' = EmptyMap
            /\ edge_id_map' = EmptyMap
            /\ edge_index_map' = EmptyMap
            /\ UNCHANGED <<graph_nodes, graph_edges, invariants,
                           next_node_id, next_edge_id>>

\* ContextGraph::remove_node.  The removals from node_id_map and node_index_map
\* at lines 294 and 302 are followed by the clear of all four maps, which are
\* then rebuilt from the weights left in the petgraph.
remove_node(node_id) ==
    /\ UNCHANGED not_graph
    /\ IF node_id \in DOMAIN node_id_map
       THEN LET node_idx == node_id_map[node_id]
                node_data == node_weight(graph_nodes, node_idx)
                g == pet_remove_node(graph_nodes, graph_edges, node_idx)
            IN  /\ graph_nodes' = g.nodes
                /\ graph_edges' = g.edges
                /\ node_id_map' = rebuild_id_map(node_ids_of(g.nodes), 1, EmptyMap)
                /\ node_index_map' = rebuild_index_map(node_ids_of(g.nodes), 1, EmptyMap)
                /\ edge_id_map' = rebuild_id_map(edge_ids_of(g.edges), 1, EmptyMap)
                /\ edge_index_map' = rebuild_index_map(edge_ids_of(g.edges), 1, EmptyMap)
                /\ last' = [op |-> "remove_node", a1 |-> node_id, a2 |-> 0,
                            res |-> [OkResult EXCEPT !.tag = "Some"], node |-> node_data]
                /\ UNCHANGED <<invariants, next_node_id, next_edge_id>>
       ELSE /\ last' = [op |-> "remove_node", a1 |-> node_id, a2 |-> 0,
                        res |-> [OkResult EXCEPT !.tag = "None"], node |-> NoNode]
            /\ UNCHANGED graph_vars

GraphNext ==
    \/ \E kind \in InvariantKinds : push_invariant(kind)
    \/ \E value \in NodeValues : add_node(value)
    \/ \E source \in NodeIds, target \in NodeIds, value \in EdgeValues :
          add_edge(source, target, value)
    \/ \E node_id \in NodeIds : remove_node(node_id)

Spec == Init /\ [][GraphNext]_vars

\* ---------------------------------------------------------------------
\* Properties of ContextGraph
\* ---------------------------------------------------------------------
\* the ids of the nodes / edges that are in the graph
LiveNodeIds == {graph_nodes[i].id : i \in 1..Len(graph_nodes)}
LiveEdgeIds == {graph_edges[i].w.id : i \in 1..Len(graph_edges)}

\* C1: an add_edge that a registered invariant rejects fails with
\* InvariantViolation and leaves the graph as it was before the call: the edge
\* array, edge_count and the edge id maps are unchanged.
C1_RejectedEdgeRolledBack ==
    [][(last'.op = "add_edge" /\ last'.res.err = "InvariantViolation")
         => /\ graph_edges' = graph_edges
            /\ Len(graph_edges') = edge_count
            /\ edge_id_map' = edge_id_map
            /\ graph_nodes' = graph_nodes]_vars

\* C2: every edge in the graph has a source and a target that are both nodes
\* currently in the graph.
C2_NoDanglingEdge ==
    \A i \in 1..Len(graph_edges) :
        /\ graph_edges[i].w.source \in LiveNodeIds
        /\ graph_edges[i].w.target \in LiveNodeIds

\* C2 witness: a remove_node has cascaded one of two edges away and the other
\* survives it, in a graph whose registered invariant rejects every add_edge.
C2_Witness ==
    /\ last.op = "remove_node" /\ last.res.tag = "Some"
    /\ Len(graph_edges) = 1
    /\ next_edge_id = 3
    /\ invariants = <<"Rejecting">>

\* C3: remove_node(n) of a node in the graph returns n's entry; afterwards
\* get_node(n) is nothing, node_count is one less, no edge has n as source or
\* target, and every other node and every edge that did not touch n is still
\* there, unchanged.
C3_RemoveNodeCascades ==
    [][(last'.op = "remove_node" /\ last'.a1 \in LiveNodeIds)
         => LET n == last'.a1
            IN  /\ last'.res.tag = "Some"
                /\ last'.node = get_node(n)
                /\ last'.node.id = n
                /\ get_node_in(node_id_map', graph_nodes', n) = NoNode
                /\ Len(graph_nodes') = node_count - 1
                /\ \A i \in 1..Len(graph_edges') :
                      /\ graph_edges'[i].w.source # n
                      /\ graph_edges'[i].w.target # n
                /\ \A m \in LiveNodeIds \ {n} :
                      get_node_in(node_id_map', graph_nodes', m) = get_node(m)
                /\ \A e \in LiveEdgeIds :
                      (get_edge(e).source # n /\ get_edge(e).target # n)
                         => get_edge_in(edge_id_map', graph_edges', e) = get_edge(e)
                /\ Len(graph_edges') =
                      Cardinality({e \in LiveEdgeIds :
                          get_edge(e).source # n /\ get_edge(e).target # n})]_vars

\* C3 witness: a node that was not the last of the node array has been removed
\* together with an edge, and a node and an edge remain.
C3_Witness ==
    /\ last.op = "remove_node" /\ last.res.tag = "Some"
    /\ last.node.id = 1
    /\ Len(graph_nodes) = 1
    /\ Len(graph_edges) = 1
    /\ next_edge_id = 3

\* C4, state part: the id-to-index and index-to-id maps are exact inverses of
\* each other, cover exactly the live nodes and edges, every id resolves to
\* the entry that carries that id, and the backend endpoints of an edge are
\* the indices of its source and target.
C4_MapsInverse ==
    /\ DOMAIN node_id_map = LiveNodeIds
    /\ DOMAIN node_index_map = 1..Len(graph_nodes)
    /\ \A id \in DOMAIN node_id_map :
          /\ node_id_map[id] \in DOMAIN node_index_map
          /\ node_index_map[node_id_map[id]] = id
          /\ get_node(id).id = id
    /\ \A idx \in DOMAIN node_index_map :
          /\ node_index_map[idx] \in DOMAIN node_id_map
          /\ node_id_map[node_index_map[idx]] = idx
    /\ DOMAIN edge_id_map = LiveEdgeIds
    /\ DOMAIN edge_index_map = 1..Len(graph_edges)
    /\ \A id \in DOMAIN edge_id_map :
          /\ edge_id_map[id] \in DOMAIN edge_index_map
          /\ edge_index_map[edge_id_map[id]] = id
          /\ get_edge(id).id = id
    /\ \A idx \in DOMAIN edge_index_map :
          /\ edge_index_map[idx] \in DOMAIN edge_id_map
          /\ edge_id_map[edge_index_map[idx]] = idx
    /\ \A i \in 1..Len(graph_edges) :
          /\ graph_edges[i].w.source \in DOMAIN node_id_map
          /\ graph_edges[i].w.target \in DOMAIN node_id_map
          /\ graph_edges[i].node[1] = node_id_map[graph_edges[i].w.source]
          /\ graph_edges[i].node[2] = node_id_map[graph_edges[i].w.target]

\* C4, step part: an id that survives a call resolves to the same entry (id,
\* payload, endpoints) after the call as before it.
C4_EntriesStable ==
    /\ \A id \in LiveNodeIds :
          get_node_in(node_id_map', graph_nodes', id) \in {get_node(id), NoNode}
    /\ \A id \in LiveEdgeIds :
          get_edge_in(edge_id_map', graph_edges', id) \in {get_edge(id), NoEdge}

\* C4: after any sequence of add_node, add_edge and remove_node, every
\* surviving NodeId and EdgeId resolves to the entry carrying that id, payload
\* and endpoints, and the id and index maps are exact inverses covering
\* exactly the live nodes and edges.
C4_IdMapsConsistent == []C4_MapsInverse /\ [][C4_EntriesStable]_vars

\* C4 witness: a removal has shifted both a node index and an edge index: the
\* surviving edge 2 sits at index 1 and node 2 sits at index 1, with the
\* edge's backend endpoints re-pointed to it.
C4_Witness ==
    /\ last.op = "remove_node" /\ last.res.tag = "Some"
    /\ Len(graph_edges) = 1 /\ graph_edges[1].w.id = 2
    /\ Len(graph_nodes) = 1 /\ graph_nodes[1].id = 2
    /\ graph_edges[1].node = <<1, 1>>

\* C10: an add_edge whose source or target is not in the graph fails with
\* NodeNotFound carrying the id of an endpoint that is missing, and changes
\* nothing: nodes, edges, counts, maps and the ids still to be minted are as
\* before, so every later call sees the graph the failed call found.
C10_MissingEndpointNoChange ==
    [][(last'.op = "add_edge" /\ ~({last'.a1, last'.a2} \subseteq LiveNodeIds))
         => /\ last'.res.tag = "Err"
            /\ last'.res.err = "NodeNotFound"
            /\ last'.res.id \in {last'.a1, last'.a2} \ LiveNodeIds
            /\ UNCHANGED graph_vars]_vars

\* C10 witness: an add_edge with a present source and a missing target has
\* failed on a graph that holds nodes and an edge.
C10_Witness ==
    /\ last.op = "add_edge" /\ last.res.err = "NodeNotFound"
    /\ last.a1 \in LiveNodeIds /\ last.a2 \notin LiveNodeIds
    /\ last.res.id = last.a2
    /\ Len(graph_nodes) >= 1 /\ Len(graph_edges) >= 1

\* C11: remove_node on an id that is not in the graph (never added, or already
\* removed) returns None and changes no node, no edge and no id map; a second
\* remove_node of the same id is such a call.
C11_RemoveAbsentNoOp ==
    [][(last'.op = "remove_node" /\ last'.a1 \notin LiveNodeIds)
         => /\ last'.res.tag = "None"
            /\ last'.node = NoNode
            /\ graph_nodes' = graph_nodes
            /\ graph_edges' = graph_edges
            /\ node_id_map' = node_id_map
            /\ node_index_map' = node_index_map
            /\ edge_id_map' = edge_id_map
            /\ edge_index_map' = edge_index_map]_vars

\* C11 witness: remove_node has returned None for an id that was minted before,
\* so that was removed already, on a graph that still holds a node and an edge.
C11_Witness ==
    /\ last.op = "remove_node" /\ last.res.tag = "None"
    /\ last.a1 < next_node_id /\ last.a1 \notin LiveNodeIds
    /\ Len(graph_nodes) >= 1 /\ Len(graph_edges) >= 1
    /\ DOMAIN node_id_map = LiveNodeIds

\* ---------------------------------------------------------------------
\* CidDag (src/src/cid_dag.rs)
\* ---------------------------------------------------------------------
CidNode(cid, content, timestamp) == [cid |-> cid, content |-> content, timestamp |-> timestamp]

\* the result of verify_chain: Ok(chain) or Err(ChainVerificationFailed)
OkChain(chain) == [tag |-> "Ok", err |-> "", chain |-> chain]
ErrChain(e) == [tag |-> "Err", err |-> e, chain |-> <<>>]

\* retain with the predicate inverted: keeps only cid
retain_only(seq, cid) == SelectSeq(seq, LAMBDA c : c = cid)

\* Vec::retain(|&c| c != cid)
retain_not(seq, cid) == SelectSeq(seq, LAMBDA c : c # cid)

\* Vec::reverse
Reverse(seq) == [i \in 1..Len(seq) |-> seq[Len(seq) + 1 - i]]

\* the node indices reachable from the indices in `from` along zero or more edges
RECURSIVE dag_reach(_, _)
dag_reach(edges, from) ==
    LET more == from \cup {edges[i].node[2] : i \in {j \in 1..Len(edges) : edges[j].node[1] \in from}}
    IN  IF more = from THEN from ELSE dag_reach(edges, more)

\* a cycle check that only sees self-loops
daggy_would_cycle_self_only(edges, a, b) == a = b

\* daggy Dag::add_edge: Err(WouldCycle) and no change when a -> b would close a
\* cycle (a = b, or a is reachable from b), else the edge is pushed.  Edges of
\* every type count; parallel edges are allowed.
daggy_would_cycle(edges, a, b) == a = b \/ a \in dag_reach(edges, {b})

daggy_add_edge(edges, a, b, edge_type) ==
    IF daggy_would_cycle(edges, a, b)
    THEN [ok |-> FALSE, edges |-> edges]
    ELSE [ok |-> TRUE, edges |-> Append(edges, [edge_type |-> edge_type, node |-> <<a, b>>])]

\* CidDag::add_causal_edge / add_reference, the two cid_index lookups
lookup_cids(index, first, second) ==
    IF first \notin DOMAIN index THEN Err("CidNotFound", first, "")
    ELSE IF second \notin DOMAIN index THEN Err("CidNotFound", second, "")
    ELSE OkResult

\* add_node that reports the duplicate but stores the new content over the old
dag_add_node_overwriting(cid, content, timestamp) ==
    /\ UNCHANGED not_dag
    /\ IF cid \in DOMAIN cid_index
       THEN /\ dag_last' = [op |-> "add_node", a1 |-> cid, a2 |-> 0,
                            res |-> Err("DuplicateCid", cid, ""), chain |-> <<>>]
            /\ dag_nodes' = [dag_nodes EXCEPT ![cid_index[cid]] =
                                 CidNode(cid, content, timestamp)]
            /\ UNCHANGED <<dag_edges, cid_index, node_to_cid, roots, leaves>>
       ELSE LET node_idx == Len(dag_nodes) + 1
            IN  /\ dag_nodes' = Append(dag_nodes, CidNode(cid, content, timestamp))
                /\ cid_index' = MapInsert(cid_index, cid, node_idx)
                /\ node_to_cid' = MapInsert(node_to_cid, node_idx, cid)
                /\ roots' = Append(roots, cid)
                /\ leaves' = Append(leaves, cid)
                /\ dag_last' = [op |-> "add_node", a1 |-> cid, a2 |-> 0,
                                res |-> OkResult, chain |-> <<>>]
                /\ UNCHANGED dag_edges

\* CidDag::add_node
dag_add_node(cid, content, timestamp) ==
    /\ UNCHANGED not_dag
    /\ IF cid \in DOMAIN cid_index
       THEN /\ dag_last' = [op |-> "add_node", a1 |-> cid, a2 |-> 0,
                            res |-> Err("DuplicateCid", cid, ""), chain |-> <<>>]
            /\ UNCHANGED dag_vars
       ELSE LET node_idx == Len(dag_nodes) + 1
            IN  /\ dag_nodes' = Append(dag_nodes, CidNode(cid, content, timestamp))
                /\ cid_index' = MapInsert(cid_index, cid, node_idx)
                /\ node_to_cid' = MapInsert(node_to_cid, node_idx, cid)
                /\ roots' = Append(roots, cid)
                /\ leaves' = Append(leaves, cid)
                /\ dag_last' = [op |-> "add_node", a1 |-> cid, a2 |-> 0,
                                res |-> OkResult, chain |-> <<>>]
                /\ UNCHANGED dag_edges

\* CidDag::add_causal_edge
add_causal_edge(previous, next) ==
    /\ UNCHANGED not_dag
    /\ LET found == lookup_cids(cid_index, previous, next)
       IN  IF found.tag = "Err"
           THEN /\ dag_last' = [op |-> "add_causal_edge", a1 |-> previous, a2 |-> next,
                                res |-> found, chain |-> <<>>]
                /\ UNCHANGED dag_vars
           ELSE LET added == daggy_add_edge(dag_edges, cid_index[previous],
                                            cid_index[next], "Causal")
                IN  IF ~added.ok
                    THEN /\ dag_last' = [op |-> "add_causal_edge", a1 |-> previous,
                                         a2 |-> next,
                                         res |-> Err("CycleDetected", 0, ""), chain |-> <<>>]
                         /\ UNCHANGED dag_vars
                    ELSE /\ Len(dag_edges) < MaxDagEdges
                         /\ dag_edges' = added.edges
                         /\ roots' = retain_not(roots, next)
                         /\ leaves' = retain_not(leaves, previous)
                         /\ dag_last' = [op |-> "add_causal_edge", a1 |-> previous,
                                         a2 |-> next, res |-> OkResult, chain |-> <<>>]
                         /\ UNCHANGED <<dag_nodes, cid_index, node_to_cid>>

\* CidDag::add_reference
add_reference(from, to) ==
    /\ UNCHANGED not_dag
    /\ LET found == lookup_cids(cid_index, from, to)
       IN  IF found.tag = "Err"
           THEN /\ dag_last' = [op |-> "add_reference", a1 |-> from, a2 |-> to,
                                res |-> found, chain |-> <<>>]
                /\ UNCHANGED dag_vars
           ELSE LET added == daggy_add_edge(dag_edges, cid_index[from],
                                            cid_index[to], "Reference")
                IN  IF ~added.ok
                    THEN /\ dag_last' = [op |-> "add_reference", a1 |-> from, a2 |-> to,
                                         res |-> Err("CycleDetected", 0, ""), chain |-> <<>>]
                         /\ UNCHANGED dag_vars
                    ELSE /\ Len(dag_edges) < MaxDagEdges
                         /\ dag_edges' = added.edges
                         /\ dag_last' = [op |-> "add_reference", a1 |-> from, a2 |-> to,
                                         res |-> OkResult, chain |-> <<>>]
                         /\ UNCHANGED <<dag_nodes, cid_index, node_to_cid, roots, leaves>>

\* parents collected without the edge_type filter: every edge is followed
RECURSIVE causal_parents_any_type(_, _, _, _)
causal_parents_any_type(edges, n2c, node_idx, i) ==
    IF i = 0 THEN <<>>
    ELSE (IF /\ edges[i].node[2] = node_idx
             /\ edges[i].node[1] \in DOMAIN n2c
          THEN <<n2c[edges[i].node[1]]>>
          ELSE <<>>) \o causal_parents_any_type(edges, n2c, node_idx, i - 1)

\* CidDag::verify_chain, lines 225-235: the causal parents of the node at
\* node_idx, in the order daggy's Parents walker yields them (the incoming
\* edge added last comes first); an edge of another type, and a parent index
\* without a cid, is skipped.  Call with i = Len(edges).
RECURSIVE causal_parents(_, _, _, _)
causal_parents(edges, n2c, node_idx, i) ==
    IF i = 0 THEN <<>>
    ELSE (IF /\ edges[i].node[2] = node_idx
             /\ edges[i].edge_type = "Causal"
             /\ edges[i].node[1] \in DOMAIN n2c
          THEN <<n2c[edges[i].node[1]]>>
          ELSE <<>>) \o causal_parents(edges, n2c, node_idx, i - 1)

\* CidDag::verify_chain, the while loop; to_root = 0 stands for None
RECURSIVE verify_chain_walk(_, _, _)
verify_chain_walk(current, chain, to_root) ==
    IF current \notin DOMAIN cid_index
    THEN OkChain(Reverse(chain))
    ELSE LET parents == causal_parents(dag_edges, node_to_cid, cid_index[current],
                                       Len(dag_edges))
         IN  IF parents = <<>>
             THEN IF to_root # 0 /\ current # to_root
                  THEN ErrChain("ChainVerificationFailed")
                  ELSE OkChain(Reverse(chain))
             ELSE verify_chain_walk(parents[1], Append(chain, parents[1]), to_root)

\* CidDag::verify_chain as a function of its arguments
verify_chain_result(from, to_root) == verify_chain_walk(from, <<from>>, to_root)

\* a call of CidDag::verify_chain
verify_chain(from, to_root) ==
    /\ UNCHANGED not_dag
    /\ UNCHANGED dag_vars
    /\ LET r == verify_chain_result(from, to_root)
       IN  dag_last' = [op |-> "verify_chain", a1 |-> from, a2 |-> to_root,
                        res |-> [tag |-> r.tag, err |-> r.err, id |-> 0, msg |-> ""],
                        chain |-> r.chain]

DagNext ==
    \/ \E cid \in Cids, content \in Contents, timestamp \in Timestamps :
          dag_add_node(cid, content, timestamp)
    \/ \E previous \in Cids, next \in Cids : add_causal_edge(previous, next)
    \/ \E from \in Cids, to \in Cids : add_reference(from, to)
    \/ \E from \in Cids, to_root \in {0} \cup Cids : verify_chain(from, to_root)

SpecDag == Init /\ [][DagNext]_vars

\* CidDag whose nodes are added with differing content and timestamp
DagNodesNext ==
    \/ \E cid \in Cids, payload \in NodePayloads :
          dag_add_node(cid, payload[1], payload[2])
    \/ \E previous \in Cids, next \in Cids : add_causal_edge(previous, next)
    \/ \E from \in Cids, to \in Cids : add_reference(from, to)

SpecDagNodes == Init /\ [][DagNodesNext]_vars

\* daggy's Parents (k = 2) and Children (k = 1) walkers of the node at node_idx:
\* the node at the other end of each of its incoming (outgoing) edges, the edge
\* added last first.  Call with i = Len(edges).
RECURSIVE dag_neighbors(_, _, _, _)
dag_neighbors(edges, node_idx, k, i) ==
    IF i = 0 THEN <<>>
    ELSE (IF edges[i].node[k] = node_idx THEN <<edges[i].node[3 - k]>> ELSE <<>>)
         \o dag_neighbors(edges, node_idx, k, i - 1)

\* the node_to_cid lookups of a list of node indices; a miss is skipped
RECURSIVE cids_of(_, _)
cids_of(n2c, idxs) ==
    IF idxs = <<>> THEN <<>>
    ELSE (IF Head(idxs) \in DOMAIN n2c THEN <<n2c[Head(idxs)]>> ELSE <<>>)
         \o cids_of(n2c, Tail(idxs))

\* CidDag::ancestors / descendants, the while loop: pop the node pushed last;
\* at its first visit push every parent (child) on to_visit and its cid on
\* result, once per edge that leads to it
RECURSIVE dag_walk(_, _, _, _)
dag_walk(to_visit, visited, result, k) ==
    IF to_visit = <<>> THEN result
    ELSE LET current == to_visit[Len(to_visit)]
             rest == SubSeq(to_visit, 1, Len(to_visit) - 1)
         IN  IF current \in visited
             THEN dag_walk(rest, visited, result, k)
             ELSE LET nb == dag_neighbors(dag_edges, current, k, Len(dag_edges))
                  IN  dag_walk(rest \o nb, visited \cup {current},
                               result \o cids_of(node_to_cid, nb), k)

\* CidDag::ancestors as a function of its argument
ancestors_of(cid) ==
    IF cid \in DOMAIN cid_index THEN dag_walk(<<cid_index[cid]>>, {}, <<>>, 2) ELSE <<>>

\* CidDag::descendants as a function of its argument
descendants_of(cid) ==
    IF cid \in DOMAIN cid_index THEN dag_walk(<<cid_index[cid]>>, {}, <<>>, 1) ELSE <<>>

\* Iterator::find: the first element of seq that is in set, 0 for None
RECURSIVE find_in(_, _)
find_in(seq, set) ==
    IF seq = <<>> THEN 0
    ELSE IF Head(seq) \in set THEN Head(seq) ELSE find_in(Tail(seq), set)

\* a common_ancestor that returns the first ancestor of cid2 whatever cid1 is
common_ancestor_first_of_second(cid1, cid2) ==
    LET ancestors2 == ancestors_of(cid2)
    IN  IF ancestors2 = <<>> THEN 0 ELSE ancestors2[1]

\* CidDag::common_ancestor as a function of its arguments, 0 for None
common_ancestor_of(cid1, cid2) ==
    LET ancestors1 == {ancestors_of(cid1)[i] : i \in 1..Len(ancestors_of(cid1))}
        ancestors2 == ancestors_of(cid2)
    IN  find_in(ancestors2, ancestors1)

\* a call of CidDag::ancestors
ancestors(cid) ==
    /\ UNCHANGED not_dag
    /\ UNCHANGED dag_vars
    /\ dag_last' = [op |-> "ancestors", a1 |-> cid, a2 |-> 0, res |-> OkResult,
                    chain |-> ancestors_of(cid)]

\* a call of CidDag::descendants
descendants(cid) ==
    /\ UNCHANGED not_dag
    /\ UNCHANGED dag_vars
    /\ dag_last' = [op |-> "descendants", a1 |-> cid, a2 |-> 0, res |-> OkResult,
                    chain |-> descendants_of(cid)]

\* a call of CidDag::common_ancestor
common_ancestor(cid1, cid2) ==
    /\ UNCHANGED not_dag
    /\ UNCHANGED dag_vars
    /\ LET found == common_ancestor_of(cid1, cid2)
       IN  dag_last' = [op |-> "common_ancestor", a1 |-> cid1, a2 |-> cid2,
                        res |-> [OkResult EXCEPT !.tag = IF found = 0 THEN "None" ELSE "Some",
                                                 !.id = found],
                        chain |-> <<>>]

\* CidDag built over three CIDs and queried for ancestors and descendants
DagQueryNext ==
    \/ \E cid \in ChainCids, content \in Contents, timestamp \in Timestamps :
          dag_add_node(cid, content, timestamp)
    \/ \E previous \in ChainCids, next \in ChainCids : add_causal_edge(previous, next)
    \/ \E from \in ChainCids, to \in ChainCids : add_reference(from, to)
    \/ \E cid \in ChainCids : ancestors(cid)
    \/ \E cid \in ChainCids : descendants(cid)
    \/ \E cid1 \in ChainCids, cid2 \in ChainCids : common_ancestor(cid1, cid2)

SpecDagQueries == Init /\ [][DagQueryNext]_vars

\* ---------------------------------------------------------------------
\* EventDag and ObjectDag (src/src/cid_dag.rs, lines 340-421)
\* ---------------------------------------------------------------------
\* The operations of CidDag as functions of the DAG value d, a record of the
\* six fields, returning the Result and the DAG after the call.
TheDag == [nodes |-> dag_nodes, edges |-> dag_edges, cid_index |-> cid_index,
           node_to_cid |-> node_to_cid, roots |-> roots, leaves |-> leaves]

\* CidDag::add_node
add_node_in(d, cid, content, timestamp) ==
    IF cid \in DOMAIN d.cid_index
    THEN [res |-> Err("DuplicateCid", cid, ""), dag |-> d]
    ELSE LET node_idx == Len(d.nodes) + 1
         IN  [res |-> OkResult,
              dag |-> [nodes |-> Append(d.nodes, CidNode(cid, content, timestamp)),
                       edges |-> d.edges,
                       cid_index |-> MapInsert(d.cid_index, cid, node_idx),
                       node_to_cid |-> MapInsert(d.node_to_cid, node_idx, cid),
                       roots |-> Append(d.roots, cid),
                       leaves |-> Append(d.leaves, cid)]]

\* CidDag::add_causal_edge
add_causal_edge_in(d, previous, next) ==
    LET found == lookup_cids(d.cid_index, previous, next)
    IN  IF found.tag = "Err" THEN [res |-> found, dag |-> d]
        ELSE LET added == daggy_add_edge(d.edges, d.cid_index[previous],
                                         d.cid_index[next], "Causal")
             IN  IF ~added.ok THEN [res |-> Err("CycleDetected", 0, ""), dag |-> d]
                 ELSE [res |-> OkResult,
                       dag |-> [d EXCEPT !.edges = added.edges,
                                         !.roots = retain_not(d.roots, next),
                                         !.leaves = retain_not(d.leaves, previous)]]

\* CidDag::add_reference
add_reference_in(d, from, to) ==
    LET found == lookup_cids(d.cid_index, from, to)
    IN  IF found.tag = "Err" THEN [res |-> found, dag |-> d]
        ELSE LET added == daggy_add_edge(d.edges, d.cid_index[from],
                                         d.cid_index[to], "Reference")
             IN  IF ~added.ok THEN [res |-> Err("CycleDetected", 0, ""), dag |-> d]
                 ELSE [res |-> OkResult, dag |-> [d EXCEPT !.edges = added.edges]]

\* reference linking that gives up at the first target it cannot link
RECURSIVE link_references_until_error(_, _, _)
link_references_until_error(d, from, refs) ==
    IF refs = <<>> THEN d
    ELSE LET r == add_reference_in(d, from, Head(refs))
         IN  IF r.res.tag = "Err" THEN d
             ELSE link_references_until_error(r.dag, from, Tail(refs))

\* self.add_reference(from, to).ok() for each referenced CID in turn: the
\* Result is dropped, the DAG is what add_reference left
RECURSIVE link_references(_, _, _)
link_references(d, from, refs) ==
    IF refs = <<>> THEN d
    ELSE link_references(add_reference_in(d, from, Head(refs)).dag, from, Tail(refs))

EventNode(payload_cid) == [kind |-> "Event", payload_cid |-> payload_cid]
ObjectNode(chunks) == [kind |-> "Object", chunks |-> chunks]

\* EventDag::add_event; previous_cid = 0 and payload_cid = 0 stand for None.
\* The `?` after add_causal_edge returns the error with the node inserted.
add_event_in(d, event_cid, previous_cid, payload_cid, timestamp) ==
    LET n == add_node_in(d, event_cid, EventNode(payload_cid), timestamp)
    IN  IF n.res.tag = "Err" THEN n
        ELSE LET c == IF previous_cid # 0
                      THEN add_causal_edge_in(n.dag, previous_cid, event_cid)
                      ELSE [res |-> OkResult, dag |-> n.dag]
             IN  IF c.res.tag = "Err" THEN c
                 ELSE [res |-> OkResult,
                       dag |-> link_references(c.dag, event_cid,
                                   IF payload_cid # 0 THEN <<payload_cid>> ELSE <<>>)]

\* ObjectDag::add_object
add_object_in(d, object_cid, chunks, timestamp) ==
    LET n == add_node_in(d, object_cid, ObjectNode(chunks), timestamp)
    IN  IF n.res.tag = "Err" THEN n
        ELSE [res |-> OkResult, dag |-> link_references(n.dag, object_cid, chunks)]

\* the DAG is a CidDag<EventNode> (CidDag<ObjectNode>): it holds no other node
IsEventDag == \A i \in 1..Len(dag_nodes) : dag_nodes[i].content.kind = "Event"
IsObjectDag == \A i \in 1..Len(dag_nodes) : dag_nodes[i].content.kind = "Object"

\* the call leaves the DAG r.dag and the Result r.res
typed_dag_call(op, cid, previous, refs, r) ==
    /\ UNCHANGED not_dag
    /\ Len(r.dag.edges) <= MaxDagEdges
    /\ dag_nodes' = r.dag.nodes
    /\ dag_edges' = r.dag.edges
    /\ cid_index' = r.dag.cid_index
    /\ node_to_cid' = r.dag.node_to_cid
    /\ roots' = r.dag.roots
    /\ leaves' = r.dag.leaves
    /\ dag_last' = [op |-> op, a1 |-> cid, a2 |-> previous, res |-> r.res,
                    chain |-> <<>>, refs |-> refs]

\* a call of EventDag::add_event
add_event(event_cid, previous_cid, payload_cid, timestamp) ==
    /\ IsEventDag
    /\ typed_dag_call("add_event", event_cid, previous_cid,
                      IF payload_cid # 0 THEN <<payload_cid>> ELSE <<>>,
                      add_event_in(TheDag, event_cid, previous_cid, payload_cid, timestamp))

\* a call of ObjectDag::add_object
add_object(object_cid, chunks, timestamp) ==
    /\ IsObjectDag
    /\ typed_dag_call("add_object", object_cid, 0, chunks,
                      add_object_in(TheDag, object_cid, chunks, timestamp))

TypedDagNext ==
    \/ \E event_cid \in TypedCids, previous_cid \in {0} \cup TypedCids,
          payload_cid \in {0} \cup ChainCids, timestamp \in Timestamps :
          add_event(event_cid, previous_cid, payload_cid, timestamp)
    \/ \E object_cid \in TypedCids, chunks \in ChunkLists, timestamp \in Timestamps :
          add_object(object_cid, chunks, timestamp)

SpecTypedDag == Init /\ [][TypedDagNext]_vars

\* ---------------------------------------------------------------------
\* Properties of CidDag
\* ---------------------------------------------------------------------
\* the CIDs in the DAG
DagCids == {dag_nodes[i].cid : i \in 1..Len(dag_nodes)}

\* p is a causal parent of c: some Causal edge runs from p's node to c's node
IsCausalParent(p, c) ==
    /\ p \in DOMAIN cid_index /\ c \in DOMAIN cid_index
    /\ \E i \in 1..Len(dag_edges) :
          /\ dag_edges[i].edge_type = "Causal"
          /\ dag_edges[i].node = <<cid_index[p], cid_index[c]>>

HasCausalParent(c) == \E p \in DagCids : IsCausalParent(p, c)
HasCausalChild(p) == \E c \in DagCids : IsCausalParent(p, c)

SeqToSet(seq) == {seq[i] : i \in 1..Len(seq)}

\* C5, state part: roots is exactly the CIDs without a causal parent, leaves
\* exactly the CIDs without a causal child, each listed once.
C5_RootsLeavesExact ==
    /\ SeqToSet(roots) = {c \in DagCids : ~HasCausalParent(c)}
    /\ Len(roots) = Cardinality(SeqToSet(roots))
    /\ SeqToSet(leaves) = {c \in DagCids : ~HasCausalChild(c)}
    /\ Len(leaves) = Cardinality(SeqToSet(leaves))

\* C5: after any sequence of add_node, add_causal_edge and add_reference
\* calls, successful or failed, root_cids() is exactly the CIDs with no causal
\* parent and latest_cids() exactly the CIDs with no causal child, each once;
\* an add_reference call changes neither.
C5_RootsAndLeaves ==
    /\ []C5_RootsLeavesExact
    /\ [][dag_last'.op = "add_reference" => (roots' = roots /\ leaves' = leaves)]_vars

\* C5 witness: a reference edge has just been added; its target, which now
\* has a parent by a reference edge, is still listed as a root and its source
\* as a leaf.
C5_Witness ==
    /\ dag_last.op = "add_reference" /\ dag_last.res.tag = "Ok"
    /\ dag_last.a2 \in SeqToSet(roots)
    /\ dag_last.a1 \in SeqToSet(leaves)
    /\ Len(dag_edges) >= 1

\* no node of the DAG reaches itself along one or more edges (of any type)
DagAcyclic ==
    \A i \in 1..Len(dag_edges) :
        dag_edges[i].node[1] \notin dag_reach(dag_edges, {dag_edges[i].node[2]})

\* C6: an add_causal_edge that would close a directed cycle (previous = next
\* included) fails with CycleDetected, adds no edge and leaves roots and
\* leaves unchanged; the DAG is acyclic in every reachable state.
C6_CausalCycleRejected ==
    /\ []DagAcyclic
    /\ [][(/\ dag_last'.op = "add_causal_edge"
           /\ {dag_last'.a1, dag_last'.a2} \subseteq DagCids
           /\ \/ dag_last'.a1 = dag_last'.a2
              \/ cid_index[dag_last'.a1] \in dag_reach(dag_edges, {cid_index[dag_last'.a2]}))
          => /\ dag_last'.res.err = "CycleDetected"
             /\ dag_edges' = dag_edges
             /\ roots' = roots
             /\ leaves' = leaves]_vars

\* C6 witness: with a causal edge 1 -> 2 in the DAG, add_causal_edge(2, 1) has
\* been refused with CycleDetected.
C6_Witness ==
    /\ dag_last.op = "add_causal_edge" /\ dag_last.res.err = "CycleDetected"
    /\ dag_last.a1 # dag_last.a2
    /\ IsCausalParent(dag_last.a2, dag_last.a1)

\* C7: for a CID `from` in the DAG, verify_chain(from, None) returns a chain
\* that ends with `from`, starts with a CID without causal parent, and in
\* which each element is a causal parent of the next one (so no reference
\* edge is followed).
C7_ChainToRoot ==
    (dag_last.op = "verify_chain" /\ dag_last.a2 = 0 /\ dag_last.a1 \in DagCids)
      => /\ dag_last.res.tag = "Ok"
         /\ Len(dag_last.chain) >= 1
         /\ dag_last.chain[Len(dag_last.chain)] = dag_last.a1
         /\ dag_last.chain[1] \in DagCids
         /\ ~HasCausalParent(dag_last.chain[1])
         /\ \A i \in 1..(Len(dag_last.chain) - 1) :
               IsCausalParent(dag_last.chain[i], dag_last.chain[i + 1])

\* C7 witness: verify_chain(from, None) has returned a chain of two CIDs for a
\* `from` whose newest incoming edge is a reference edge.
C7_Witness ==
    /\ dag_last.op = "verify_chain" /\ dag_last.a2 = 0
    /\ Len(dag_last.chain) = 2
    /\ \E i \in 1..Len(dag_edges) :
          /\ dag_edges[i].edge_type = "Reference"
          /\ dag_edges[i].node[2] = cid_index[dag_last.a1]
          /\ \A j \in 1..Len(dag_edges) :
                (dag_edges[j].node[2] = cid_index[dag_last.a1]) => j <= i

\* C8: whenever verify_chain(from, Some(r)) returns Ok(chain) the chain starts
\* with r, and whenever the causal walk from `from` does not end at r the call
\* fails with ChainVerificationFailed.
C8_ExpectedRootChecked ==
    (dag_last.op = "verify_chain" /\ dag_last.a2 # 0)
      => /\ dag_last.res.tag = "Ok" => dag_last.chain[1] = dag_last.a2
         /\ verify_chain_result(dag_last.a1, 0).chain[1] # dag_last.a2
               => dag_last.res.err = "ChainVerificationFailed"

\* C12: add_node with a CID already in the DAG fails with DuplicateCid and
\* changes nothing (the stored content and timestamp, the edges, roots and
\* leaves stay as they were); with a new CID it inserts the node and adds the
\* CID to both roots and leaves.
C12_AddNodeDuplicateOrInsert ==
    [][(dag_last'.op = "add_node")
         => IF dag_last'.a1 \in DagCids
            THEN /\ dag_last'.res.err = "DuplicateCid"
                 /\ dag_nodes' = dag_nodes
                 /\ dag_edges' = dag_edges
                 /\ cid_index' = cid_index
                 /\ roots' = roots
                 /\ leaves' = leaves
            ELSE /\ dag_last'.res.tag = "Ok"
                 /\ \E payload \in NodePayloads :
                       dag_nodes' = Append(dag_nodes,
                                           CidNode(dag_last'.a1, payload[1], payload[2]))
                 /\ cid_index'[dag_last'.a1] = Len(dag_nodes')
                 /\ roots' = Append(roots, dag_last'.a1)
                 /\ leaves' = Append(leaves, dag_last'.a1)
                 /\ dag_edges' = dag_edges]_vars

\* C12 witness: add_node has failed with DuplicateCid for a CID that is stored
\* with the first payload, has a causal parent and so is no longer a root.
C12_Witness ==
    /\ dag_last.op = "add_node" /\ dag_last.res.err = "DuplicateCid"
    /\ dag_last.a1 \in DagCids
    /\ dag_nodes[cid_index[dag_last.a1]] = CidNode(dag_last.a1, "First", 1000)
    /\ HasCausalParent(dag_last.a1)
    /\ dag_last.a1 \notin SeqToSet(roots)
    /\ \E i \in 1..Len(dag_nodes) : dag_nodes[i].content = "Duplicate"

\* the CIDs from which cid is reached along one or more edges, and the CIDs
\* reached from it (no node of an acyclic graph reaches itself)
AncestorCids(cid) ==
    IF cid \notin DagCids THEN {}
    ELSE {p \in DagCids \ {cid} : cid_index[cid] \in dag_reach(dag_edges, {cid_index[p]})}

DescendantCids(cid) ==
    IF cid \notin DagCids THEN {}
    ELSE {c \in DagCids \ {cid} : cid_index[c] \in dag_reach(dag_edges, {cid_index[cid]})}

NoDuplicates(seq) == \A i \in 1..Len(seq), j \in 1..Len(seq) : seq[i] = seq[j] => i = j

\* C13: ancestors(cid) returns exactly the CIDs reachable from cid along one or
\* more parent edges, each at most once even when several paths lead to it;
\* descendants(cid) does the same along child edges.
C13_AncestorsExactOnce ==
    /\ (dag_last.op = "ancestors")
          => /\ SeqToSet(dag_last.chain) = AncestorCids(dag_last.a1)
             /\ NoDuplicates(dag_last.chain)
    /\ (dag_last.op = "descendants")
          => /\ SeqToSet(dag_last.chain) = DescendantCids(dag_last.a1)
             /\ NoDuplicates(dag_last.chain)

\* C14: common_ancestor(a, b) returns a CID that is an ancestor of both a and b
\* whenever the two ancestor sets have a CID in common, and None exactly when
\* they have none (a or b not in the DAG included).
C14_CommonAncestor ==
    (dag_last.op = "common_ancestor")
      => LET common == AncestorCids(dag_last.a1) \cap AncestorCids(dag_last.a2)
         IN  /\ (common # {}) => (dag_last.res.tag = "Some" /\ dag_last.res.id \in common)
             /\ (common = {}) <=> (dag_last.res.tag = "None")

\* C14 witness: common_ancestor of two different CIDs has returned a third CID,
\* the parent of both.
C14_Witness ==
    /\ dag_last.op = "common_ancestor" /\ dag_last.res.tag = "Some"
    /\ dag_last.a1 # dag_last.a2
    /\ dag_last.res.id \in AncestorCids(dag_last.a1) \cap AncestorCids(dag_last.a2)

\* the CIDs at the far end of the Reference edges of an edge list, in order
RECURSIVE reference_targets(_, _)
reference_targets(edges, n2c) ==
    IF edges = <<>> THEN <<>>
    ELSE (IF Head(edges).edge_type = "Reference" THEN <<n2c[Head(edges).node[2]]>> ELSE <<>>)
         \o reference_targets(Tail(edges), n2c)

\* a reference from a node just inserted after `previous` to cid can be linked:
\* cid is in the DAG and does not lead back to previous
Linkable(cid, previous) ==
    /\ cid \in DagCids
    /\ previous # 0 => cid_index[previous] \notin dag_reach(dag_edges, {cid_index[cid]})

\* C15: add_event with a payload CID that is not in the DAG, and add_object
\* with chunk CIDs that are not in the DAG, still succeed and insert the node
\* (an add_event that names a previous event gets its causal edge); of the
\* references only those that can be linked become Reference edges, the
\* missing targets are left out.
C15_MissingReferenceTolerated ==
    [][(/\ dag_last'.op \in {"add_event", "add_object"}
        /\ dag_last'.a1 \notin DagCids
        /\ dag_last'.a2 # 0 => dag_last'.a2 \in DagCids
        /\ \E i \in 1..Len(dag_last'.refs) :
               dag_last'.refs[i] \notin DagCids \cup {dag_last'.a1})
         => /\ dag_last'.res.tag = "Ok"
            /\ Len(dag_nodes') = Len(dag_nodes) + 1
            /\ dag_nodes'[Len(dag_nodes')].cid = dag_last'.a1
            /\ cid_index'[dag_last'.a1] = Len(dag_nodes')
            /\ LET added == SubSeq(dag_edges', Len(dag_edges) + 1, Len(dag_edges'))
                   causal == SelectSeq(added, LAMBDA e : e.edge_type = "Causal")
               IN  /\ SubSeq(dag_edges', 1, Len(dag_edges)) = dag_edges
                   /\ \A i \in 1..Len(added) : added[i].node[1] = Len(dag_nodes')
                          \/ added[i].edge_type = "Causal"
                   /\ causal = IF dag_last'.a2 = 0 THEN <<>>
                               ELSE <<[edge_type |-> "Causal",
                                       node |-> <<cid_index[dag_last'.a2], Len(dag_nodes')>>]>>
                   /\ reference_targets(added, node_to_cid')
                        = SelectSeq(dag_last'.refs,
                                    LAMBDA c : Linkable(c, dag_last'.a2))]_vars

\* C15 witness: an add_object whose first chunk is missing and whose second
\* chunk is in the DAG has returned Ok and linked the second chunk only.
C15_Witness ==
    /\ dag_last.op = "add_object" /\ dag_last.res.tag = "Ok"
    /\ Len(dag_last.refs) = 2
    /\ dag_last.refs[1] \notin DagCids
    /\ dag_last.refs[2] \in DagCids \ {dag_last.a1}
    /\ dag_edges = <<[edge_type |-> "Reference",
                      node |-> <<cid_index[dag_last.a1], cid_index[dag_last.refs[2]]>>]>>

\* C29: if EventDag::add_event returns an error (the event CID is a duplicate,
\* the previous CID is missing, or the causal link would form a cycle), the
\* DAG is unchanged: no node for the event was inserted and the roots and
\* the leaves are as they were before the call.
C29_AddEventErrorLeavesDag ==
    [][(dag_last'.op = "add_event" /\ dag_last'.res.tag = "Err")
         => /\ dag_nodes' = dag_nodes
            /\ dag_edges' = dag_edges
            /\ cid_index' = cid_index
            /\ node_to_cid' = node_to_cid
            /\ roots' = roots
            /\ leaves' = leaves]_vars

\* ---------------------------------------------------------------------
\* ComponentStorage (src/src/types.rs)
\* ---------------------------------------------------------------------
\* The HashMap<TypeId, Box<dyn Component>> is a set of (type, value) entries.

\* HashMap::contains_key
storage_has(storage, type) == \E e \in storage : e.type = type

\* HashMap::insert: an entry with the same key is replaced
storage_insert(storage, type, value) ==
    {e \in storage : e.type # type} \cup {[type |-> type, value |-> value]}

\* ComponentStorage::get: the value stored for the type, "" for None
storage_get(storage, type) ==
    IF storage_has(storage, type)
    THEN (CHOOSE e \in storage : e.type = type).value
    ELSE ""

\* an add without the contains_key check: a second add replaces the first
storage_add_replacing(storage, type, value) ==
    [res |-> OkResult, storage |-> storage_insert(storage, type, value)]

\* ComponentStorage::add
storage_add(storage, type, value) ==
    IF storage_has(storage, type)
    THEN [res |-> Err("ComponentAlreadyExists", 0, type), storage |-> storage]
    ELSE [res |-> OkResult, storage |-> storage_insert(storage, type, value)]

\* a remove that empties the storage
storage_remove_all(storage, type) == {}

\* ComponentStorage::remove
storage_remove(storage, type) == {e \in storage : e.type # type}

\* NodeEntry::add_component / EdgeEntry::add_component
add_component(owner, type, value) ==
    /\ UNCHANGED not_components
    /\ LET r == storage_add(components[owner], type, value)
       IN  /\ components' = [components EXCEPT ![owner] = r.storage]
           /\ comp_last' = [op |-> "add", owner |-> owner, type |-> type,
                            value |-> value, res |-> r.res]

\* entry.components.remove::<T>()
remove_component(owner, type) ==
    /\ UNCHANGED not_components
    /\ components' = [components EXCEPT ![owner] = storage_remove(@, type)]
    /\ comp_last' = [op |-> "remove", owner |-> owner, type |-> type,
                     value |-> storage_get(components[owner], type), res |-> OkResult]

ComponentsNext ==
    \/ \E owner \in Owners, type \in ComponentTypes, value \in ComponentValues :
          add_component(owner, type, value)
    \/ \E owner \in Owners, type \in ComponentTypes : remove_component(owner, type)

SpecComponents == Init /\ [][ComponentsNext]_vars

\* C9: adding a component of a type the node or edge already holds fails with
\* ComponentAlreadyExists and keeps the stored value, and no storage ever
\* holds two components of one type.
C9_AddOncePerType ==
    /\ [](\A o \in Owners, t \in ComponentTypes :
             Cardinality({e \in components[o] : e.type = t}) <= 1)
    /\ [][(comp_last'.op = "add" /\ storage_has(components[comp_last'.owner], comp_last'.type))
            => /\ comp_last'.res.tag = "Err"
               /\ comp_last'.res.err = "ComponentAlreadyExists"
               /\ components' = components]_vars

\* C9 witness: an add of a second value for a type already held, on the edge
\* storage, has failed and the first value is still the one stored.
C9_Witness ==
    /\ comp_last.op = "add" /\ comp_last.res.err = "ComponentAlreadyExists"
    /\ comp_last.owner = "edge"
    /\ storage_get(components["edge"], comp_last.type) # comp_last.value
    /\ storage_get(components["edge"], comp_last.type) # ""

\* C28: after add<T>(c) succeeds, get<T>() returns c and has<T>() is true;
\* after remove<T>(), has<T>() is false and get<T>() returns nothing; the
\* components of other types, and the other storage, are unaffected by
\* either operation.
C28_StorageRoundTrip ==
    [][(comp_last' # comp_last /\ comp_last'.op \in {"add", "remove"})
         => LET o == comp_last'.owner
                t == comp_last'.type
            IN  /\ (comp_last'.op = "add" /\ comp_last'.res.tag = "Ok")
                      => /\ storage_get(components'[o], t) = comp_last'.value
                         /\ storage_has(components'[o], t)
                /\ (comp_last'.op = "remove")
                      => /\ ~storage_has(components'[o], t)
                         /\ storage_get(components'[o], t) = ""
                /\ \A u \in ComponentTypes \ {t} :
                      /\ storage_has(components'[o], u) <=> storage_has(components[o], u)
                      /\ storage_get(components'[o], u) = storage_get(components[o], u)
                /\ \A q \in Owners \ {o} : components'[q] = components[q]]_vars

\* C28 witness: a component has been removed from a node storage that still
\* holds a component of another type.
C28_Witness ==
    /\ comp_last.op = "remove" /\ comp_last.owner = "node"
    /\ comp_last.value # ""
    /\ ~storage_has(components["node"], comp_last.type)
    /\ \E u \in ComponentTypes \ {comp_last.type} : storage_has(components["node"], u)

\* ---------------------------------------------------------------------
\* Nested graphs: Subgraph components and the recursive queries
\* (src/src/context_graph.rs, lines 213-281 and 413-429)
\* ---------------------------------------------------------------------
\* nest_graphs[g] is a ContextGraph: nodes[i] is the graph that the Subgraph
\* component of the node at index i owns (0: the node has no Subgraph), edges
\* holds the endpoint indices of its edges in the order they were added, and
\* attached says that the graph has been moved into a Subgraph component.

\* ContextGraph::new
nest_new_graph ==
    /\ UNCHANGED not_nested
    /\ Len(nest_graphs) < Cardinality(GraphHandles)
    /\ nest_graphs' = Append(nest_graphs, [nodes |-> <<>>, edges |-> <<>>, attached |-> FALSE])
    /\ nest_last' = NoQuery

RECURSIVE sum_len(_, _, _)
sum_len(graphs, field, i) ==
    IF i = 0 THEN 0 ELSE Len(graphs[i][field]) + sum_len(graphs, field, i - 1)

\* ContextGraph::add_node on a graph the caller owns
nest_add_node(g) ==
    /\ UNCHANGED not_nested
    /\ ~nest_graphs[g].attached
    /\ sum_len(nest_graphs, "nodes", Len(nest_graphs)) < MaxNestNodes
    /\ nest_graphs' = [nest_graphs EXCEPT ![g].nodes = Append(@, 0)]
    /\ nest_last' = NoQuery

\* ContextGraph::add_edge between two nodes of a graph the caller owns
nest_add_edge(g, source, target) ==
    /\ UNCHANGED not_nested
    /\ ~nest_graphs[g].attached
    /\ source \in 1..Len(nest_graphs[g].nodes)
    /\ target \in 1..Len(nest_graphs[g].nodes)
    /\ sum_len(nest_graphs, "edges", Len(nest_graphs)) < MaxNestEdges
    /\ nest_graphs' = [nest_graphs EXCEPT ![g].edges = Append(@, <<source, target>>)]
    /\ nest_last' = NoQuery

\* get_node_mut(n).add_component(Subgraph { graph: Box::new(h) }): h is moved
\* into the component; a node that has a Subgraph keeps the one it has
nest_add_subgraph(g, n, h) ==
    /\ UNCHANGED not_nested
    /\ g # h
    /\ ~nest_graphs[g].attached /\ ~nest_graphs[h].attached
    /\ n \in 1..Len(nest_graphs[g].nodes)
    /\ nest_graphs[g].nodes[n] = 0
    /\ nest_graphs' = [nest_graphs EXCEPT ![g].nodes[n] = h, ![h].attached = TRUE]
    /\ nest_last' = NoQuery

\* ContextGraph::get_subgraph_nodes followed by get_component::<Subgraph>: the
\* nested graphs of g in node index order, from index i on
RECURSIVE get_subgraphs(_, _)
get_subgraphs(nodes, i) ==
    IF i > Len(nodes) THEN <<>>
    ELSE (IF nodes[i] # 0 THEN <<nodes[i]>> ELSE <<>>) \o get_subgraphs(nodes, i + 1)

\* a count that adds the node_count of each nested graph, not its total
RECURSIVE total_node_count_one_level(_)
total_node_count_one_level(g) ==
    LET subs == get_subgraphs(nest_graphs[g].nodes, 1)
        add[i \in 0..Len(subs)] ==
            IF i = 0 THEN 0 ELSE add[i - 1] + Len(nest_graphs[subs[i]].nodes)
    IN  Len(nest_graphs[g].nodes) + add[Len(subs)]

\* ContextGraph::total_node_count
RECURSIVE total_node_count(_)
total_node_count(g) ==
    LET subs == get_subgraphs(nest_graphs[g].nodes, 1)
        add[i \in 0..Len(subs)] ==
            IF i = 0 THEN 0 ELSE add[i - 1] + total_node_count(subs[i])
    IN  Len(nest_graphs[g].nodes) + add[Len(subs)]

\* ContextGraph::visit_recursive_impl: the visitor's calls, (graph, depth) each
RECURSIVE visit_recursive_impl(_, _)
visit_recursive_impl(g, depth) ==
    LET subs == get_subgraphs(nest_graphs[g].nodes, 1)
        calls[i \in 0..Len(subs)] ==
            IF i = 0 THEN <<>> ELSE calls[i - 1] \o visit_recursive_impl(subs[i], depth + 1)
    IN  <<<<g, depth>>>> \o calls[Len(subs)]

\* Graph::neighbors(a): the targets of a's outgoing edges, the edge added last
\* first.  Call with i = Len(edges).
RECURSIVE pet_neighbors(_, _, _)
pet_neighbors(edges, a, i) ==
    IF i = 0 THEN <<>>
    ELSE (IF edges[i][1] = a THEN <<edges[i][2]>> ELSE <<>>) \o pet_neighbors(edges, a, i - 1)

\* petgraph Dfs::next until the stack is empty: pop; a node not yet discovered
\* is marked, its undiscovered successors are pushed and it is yielded
RECURSIVE pet_dfs(_, _, _, _)
pet_dfs(edges, stack, discovered, yielded) ==
    IF stack = <<>> THEN yielded
    ELSE LET node == stack[Len(stack)]
             rest == SubSeq(stack, 1, Len(stack) - 1)
         IN  IF node \in discovered
             THEN pet_dfs(edges, rest, discovered, yielded)
             ELSE LET succs == SelectSeq(pet_neighbors(edges, node, Len(edges)),
                                         LAMBDA b : b \notin discovered \cup {node})
                  IN  pet_dfs(edges, rest \o succs, discovered \cup {node},
                              Append(yielded, node))

\* ContextGraph::visit_recursive as a function of the graph: the visitor's
\* calls and whether the call panicked.  On a graph without nodes Dfs::new gets
\* NodeIndex::new(0) and Dfs::next marks index 0 in a visit map of length 0,
\* which panics (FixedBitSet::put asserts the index is in range).
visit_recursive_of(g) ==
    LET nodes == nest_graphs[g].nodes
    IN  IF nodes = <<>>
        THEN [visits |-> <<<<g, 0>>>>, panicked |-> TRUE]
        ELSE LET order == pet_dfs(nest_graphs[g].edges, <<1>>, {}, <<>>)
                 calls[i \in 0..Len(order)] ==
                     IF i = 0 THEN <<>>
                     ELSE calls[i - 1] \o (IF nodes[order[i]] # 0
                                           THEN visit_recursive_impl(nodes[order[i]], 1)
                                           ELSE <<>>)
             IN  [visits |-> <<<<g, 0>>>> \o calls[Len(order)], panicked |-> FALSE]

\* a call of ContextGraph::visit_recursive
nest_visit_recursive(g) ==
    /\ UNCHANGED not_nested
    /\ UNCHANGED nest_graphs
    /\ LET r == visit_recursive_of(g)
       IN  nest_last' = [op |-> "visit_recursive", g |-> g, visits |-> r.visits,
                         total |-> 0, panicked |-> r.panicked]

\* a call of ContextGraph::total_node_count
nest_total_node_count(g) ==
    /\ UNCHANGED not_nested
    /\ UNCHANGED nest_graphs
    /\ nest_last' = [op |-> "total_node_count", g |-> g, visits |-> <<>>,
                     total |-> total_node_count(g), panicked |-> FALSE]

\* the graphs constructed so far
Graphs == GraphHandles \cap DOMAIN nest_graphs

NestedNext ==
    \/ nest_new_graph
    \/ \E g \in Graphs : nest_add_node(g)
    \/ \E g \in Graphs, source \in 1..MaxNestNodes, target \in 1..MaxNestNodes :
          nest_add_edge(g, source, target)
    \/ \E g \in Graphs, n \in 1..MaxNestNodes, h \in Graphs : nest_add_subgraph(g, n, h)
    \/ \E g \in Graphs : nest_visit_recursive(g)
    \/ \E g \in Graphs : nest_total_node_count(g)

SpecNested == Init /\ [][NestedNext]_vars

\* ---------------------------------------------------------------------
\* Properties of the recursive queries
\* ---------------------------------------------------------------------
\* the graphs nested directly in g
SubgraphsOf(g) == {nest_graphs[g].nodes[i] : i \in 1..Len(nest_graphs[g].nodes)} \ {0}

\* g and the graphs nested in it at any depth
RECURSIVE nested_closure(_)
nested_closure(set) ==
    LET more == set \cup UNION {SubgraphsOf(h) : h \in set}
    IN  IF more = set THEN set ELSE nested_closure(more)

NestedIn(g) == nested_closure({g})

\* the nesting depth of h below g, for h in NestedIn(g)
RECURSIVE NestDepth(_, _)
NestDepth(g, h) ==
    IF h = g THEN 0
    ELSE 1 + NestDepth(g, CHOOSE k \in 1..Len(nest_graphs) : h \in SubgraphsOf(k))

\* C16: visit_recursive calls the visitor once on the graph itself at depth 0
\* and once on the nested graph of every node that carries a Subgraph, at
\* every nesting level and wherever the node sits in its graph, at the depth of
\* the parent graph plus 1, a graph before the graphs nested inside it.
C16_VisitsEveryNestedGraph ==
    (nest_last.op = "visit_recursive")
      => LET visits == nest_last.visits
             g == nest_last.g
         IN  /\ visits[1] = <<g, 0>>
             /\ \A h \in NestedIn(g) :
                    \E i \in 1..Len(visits) :
                       /\ visits[i] = <<h, NestDepth(g, h)>>
                       /\ \A j \in 1..Len(visits) : visits[j][1] = h => j = i
             /\ \A i \in 1..Len(visits) : visits[i][1] \in NestedIn(g)
             /\ \A i \in 1..Len(visits), j \in 1..Len(visits) :
                    (visits[j][1] \in NestedIn(visits[i][1]) \ {visits[i][1]}) => i < j

RECURSIVE sum_nodes(_)
sum_nodes(set) ==
    IF set = {} THEN 0
    ELSE LET h == CHOOSE x \in set : TRUE
         IN  Len(nest_graphs[h].nodes) + sum_nodes(set \ {h})

\* C17: total_node_count() is the graph's own node_count plus the
\* total_node_count of the nested graph of every node carrying a Subgraph, at
\* any nesting depth: the nodes of the graph and of every graph nested in it.
C17_TotalNodeCount ==
    (nest_last.op = "total_node_count")
      => /\ nest_last.total = sum_nodes(NestedIn(nest_last.g))
         /\ nest_last.total = Len(nest_graphs[nest_last.g].nodes)
               + sum_nodes(NestedIn(nest_last.g) \ {nest_last.g})

\* C17 witness: total_node_count has counted a node two levels down.
C17_Witness ==
    /\ nest_last.op = "total_node_count"
    /\ \E h \in SubgraphsOf(nest_last.g) : \E k \in SubgraphsOf(h) :
          /\ Len(nest_graphs[k].nodes) >= 1
          /\ nest_last.total = Len(nest_graphs[nest_last.g].nodes)
                                 + Len(nest_graphs[h].nodes) + Len(nest_graphs[k].nodes)

\* C30: visit_recursive on a graph that has no nodes calls the visitor exactly
\* once, on the graph itself at depth 0, and returns without panicking.
C30_VisitEmptyGraph ==
    (nest_last.op = "visit_recursive" /\ nest_graphs[nest_last.g].nodes = <<>>)
      => /\ nest_last.visits = <<<<nest_last.g, 0>>>>
         /\ ~nest_last.panicked

\* ---------------------------------------------------------------------
\* ContextGraph: invariant checks and graph algorithms on a graph that is
\* built up (src/src/context_graph.rs, lines 157-173 and 284-289)
\* ---------------------------------------------------------------------
\* graph.invariants.push(Box::new(kind)), for up to MaxRegistered invariants
register_invariant(kind) ==
    /\ Len(invariants) < MaxRegistered
    /\ invariants' = Append(invariants, kind)
    /\ last' = [op |-> "push_invariant", a1 |-> 0, a2 |-> 0, res |-> OkResult, node |-> NoNode]
    /\ UNCHANGED <<graph_nodes, graph_edges, node_id_map, edge_id_map,
                   node_index_map, edge_index_map, next_node_id, next_edge_id>>
    /\ UNCHANGED not_graph

\* a call of ContextGraph::check_invariants
call_check_invariants ==
    /\ UNCHANGED not_graph
    /\ UNCHANGED graph_vars
    /\ last' = [op |-> "check_invariants", a1 |-> 0, a2 |-> 0,
                res |-> check_invariants(invariants, graph_edges), node |-> NoNode]

\* ContextGraph::shortest_path as a function of its arguments.  dijkstra's map
\* holds end_idx exactly when end is reachable from start (start itself at
\* cost 0); the path returned is then the empty vector of line 169.
shortest_path_of(start, end) ==
    IF start \notin DOMAIN node_id_map \/ end \notin DOMAIN node_id_map
    THEN [tag |-> "None", path |-> <<>>]
    ELSE IF node_id_map[end] \in dag_reach(graph_edges, {node_id_map[start]})
         THEN [tag |-> "Some", path |-> <<>>]
         ELSE [tag |-> "None", path |-> <<>>]

\* a call of ContextGraph::shortest_path
shortest_path(start, end) ==
    /\ UNCHANGED not_graph
    /\ UNCHANGED graph_vars
    /\ LET r == shortest_path_of(start, end)
       IN  last' = [op |-> "shortest_path", a1 |-> start, a2 |-> end,
                    res |-> [OkResult EXCEPT !.tag = r.tag], node |-> NoNode,
                    path |-> r.path]

GraphQueryNext ==
    \/ \E kind \in InvariantKinds : register_invariant(kind)
    \/ \E value \in PlainNodeValues : add_node(value)
    \/ \E source \in NodeIds, target \in NodeIds, value \in EdgeValues :
          add_edge(source, target, value)
    \/ call_check_invariants
    \/ \E start \in NodeIds, end \in NodeIds : shortest_path(start, end)

SpecGraphQueries == Init /\ [][GraphQueryNext]_vars

\* ---------------------------------------------------------------------
\* Properties of the invariant checks and the graph algorithms
\* ---------------------------------------------------------------------
\* an edge from the node with id source to the node with id target would close
\* a directed cycle: it is a self-loop, or source is reachable from target
ClosesCycle(source, target) ==
    \/ source = target
    \/ node_id_map[source] \in dag_reach(graph_edges, {node_id_map[target]})

\* C18: a graph with the Acyclic invariant registered stays acyclic: an
\* add_edge that would close a directed cycle (a self-loop included) is
\* rejected by the Acyclic check.
C18_AcyclicRejectsCycle ==
    [][(/\ last'.op = "add_edge"
        /\ \E i \in 1..Len(invariants) : invariants[i] = "Acyclic"
        /\ last'.a1 \in LiveNodeIds /\ last'.a2 \in LiveNodeIds
        /\ ClosesCycle(last'.a1, last'.a2))
         => last'.res.err = "InvariantViolation"]_vars

\* the registered invariants that fail on the edges, by position
Failing(edges) ==
    {i \in 1..Len(invariants) : invariant_check(invariants[i], edges).tag = "Err"}

\* what check_invariants is to return on the edges: the error of the failing
\* invariant registered first, Ok when none fails
FirstFailure(edges) ==
    IF Failing(edges) = {} THEN OkResult
    ELSE invariant_check(
           invariants[CHOOSE i \in Failing(edges) : \A j \in Failing(edges) : i <= j], edges)

\* C19, the check itself: check_invariants returns the error of the first
\* registered invariant that fails, and Ok only when every one passes.
C19_FirstFailureReturned ==
    (last.op = "check_invariants")
      => /\ last.res = FirstFailure(graph_edges)
         /\ (last.res.tag = "Ok") <=> (Failing(graph_edges) = {})

\* C19, add_edge: the check runs on the graph with the new edge in it.
C19_AddEdgeChecksAfterInsert ==
    (last'.op = "add_edge"
       /\ last'.a1 \in LiveNodeIds /\ last'.a2 \in LiveNodeIds)
      => /\ Len(graph_edges') = Len(graph_edges) + 1
         /\ graph_edges'[Len(graph_edges')].w.source = last'.a1
         /\ graph_edges'[Len(graph_edges')].w.target = last'.a2
         /\ IF Failing(graph_edges') = {}
            THEN last'.res = OkId(graph_edges'[Len(graph_edges')].w.id)
            ELSE last'.res = FirstFailure(graph_edges')

\* C19: check_invariants evaluates the registered invariants in registration
\* order and returns the error of the first one that fails; it returns Ok only
\* when every registered invariant passes, and add_edge runs this check after
\* inserting the edge.
C19_InvariantsInOrder ==
    []C19_FirstFailureReturned /\ [][C19_AddEdgeChecksAfterInsert]_vars

\* C19 witness: with NoSelfLoop registered before Rejecting, add_edge of the
\* first self-loop has returned the NoSelfLoop error, which the graph without
\* the new edge would not have given.
C19_Witness ==
    /\ invariants = <<"NoSelfLoop", "Rejecting">>
    /\ last.op = "add_edge" /\ last.a1 = last.a2
    /\ last.res = Err("InvariantViolation", 0, "Self-loops are not allowed")
    /\ Len(graph_edges) = 1

\* the least number of edges on a path from index a to index b, -1 if none
RECURSIVE distance_from(_, _, _)
distance_from(frontier, b, steps) ==
    IF b \in frontier THEN steps
    ELSE LET more == frontier \cup {graph_edges[i].node[2] :
                        i \in {j \in 1..Len(graph_edges) : graph_edges[j].node[1] \in frontier}}
         IN  IF more = frontier THEN 0 - 1 ELSE distance_from(more, b, steps + 1)

\* C20: shortest_path(start, end) returns, whenever end is reachable from
\* start, a path that begins at start, ends at end, joins consecutive nodes by
\* an edge and uses the fewest edges possible; it returns None when end is
\* unreachable or either id is unknown.
C20_ShortestPath ==
    (last.op = "shortest_path")
      => IF /\ last.a1 \in LiveNodeIds /\ last.a2 \in LiveNodeIds
            /\ distance_from({node_id_map[last.a1]}, node_id_map[last.a2], 0) >= 0
         THEN /\ last.res.tag = "Some"
              /\ Len(last.path) >= 1
              /\ last.path[1] = last.a1
              /\ last.path[Len(last.path)] = last.a2
              /\ \A k \in 1..(Len(last.path) - 1) :
                    \E i \in 1..Len(graph_edges) :
                       /\ graph_edges[i].w.source = last.path[k]
                       /\ graph_edges[i].w.target = last.path[k + 1]
              /\ Len(last.path) - 1
                    = distance_from({node_id_map[last.a1]}, node_id_map[last.a2], 0)
         ELSE last.res.tag = "None"

\* ---------------------------------------------------------------------
\* ContextGraph: the petgraph algorithms it wraps
\* (src/src/context_graph.rs, lines 176-208, 373-387 and 440-470)
\* ---------------------------------------------------------------------
\* the endpoint indices of the edges, in edge index order, and the same with
\* every edge turned round (petgraph's Reversed adaptor)
endpoints(edges) == [i \in 1..Len(edges) |-> edges[i].node]
reversed_endpoints(edges) == [i \in 1..Len(edges) |-> <<edges[i].node[2], edges[i].node[1]>>]

\* Vec::pop / IndexSet::pop: all but the last element
pop(seq) == SubSeq(seq, 1, Len(seq) - 1)

\* node indices back to NodeIds through node_index_map; a miss is skipped
RECURSIVE ids_of(_)
ids_of(idxs) ==
    IF idxs = <<>> THEN <<>>
    ELSE (IF Head(idxs) \in DOMAIN node_index_map THEN <<node_index_map[Head(idxs)]>>
          ELSE <<>>) \o ids_of(Tail(idxs))

\* petgraph::algo::all_simple_paths, the iterator run to its end.  visited is
\* the path under construction, stack holds for each node of it the children
\* not yet tried, max_length is max_intermediate_nodes + 1 and min_length is
\* min_intermediate_nodes + 1.  While the path is shorter than max_length a
\* child equal to `to` yields a path and any other unvisited child is entered;
\* at max_length one look at the remaining children decides whether `to` is
\* among them, and the node is left.
RECURSIVE simple_paths_run(_, _, _, _, _, _)
simple_paths_run(visited, stack, to, min_length, max_length, found) ==
    IF stack = <<>> THEN found
    ELSE LET children == stack[Len(stack)]
         IN  IF children = <<>>
             THEN simple_paths_run(pop(visited), pop(stack), to, min_length, max_length, found)
             ELSE LET child == Head(children)
                      rest == [stack EXCEPT ![Len(stack)] = Tail(children)]
                  IN  IF Len(visited) < max_length
                      THEN IF child = to
                           THEN simple_paths_run(visited, rest, to, min_length, max_length,
                                    IF Len(visited) >= min_length
                                    THEN Append(found, Append(visited, to)) ELSE found)
                           ELSE IF child \notin {visited[i] : i \in 1..Len(visited)}
                                THEN simple_paths_run(Append(visited, child),
                                         Append(rest, pet_neighbors(endpoints(graph_edges), child,
                                                                    Len(graph_edges))),
                                         to, min_length, max_length, found)
                                ELSE simple_paths_run(visited, rest, to, min_length,
                                                      max_length, found)
                      ELSE simple_paths_run(pop(visited), pop(stack), to, min_length, max_length,
                               IF /\ to \in {children[i] : i \in 1..Len(children)}
                                  /\ Len(visited) >= min_length
                               THEN Append(found, Append(visited, to)) ELSE found)

\* ContextGraph::all_simple_paths as a function of its arguments: max_length is
\* handed to petgraph as max_intermediate_nodes, with min_intermediate_nodes 0
all_simple_paths_of(start, end, max_length) ==
    IF start \notin DOMAIN node_id_map \/ end \notin DOMAIN node_id_map THEN <<>>
    ELSE LET start_idx == node_id_map[start]
             end_idx == node_id_map[end]
             paths == simple_paths_run(<<start_idx>>,
                          <<pet_neighbors(endpoints(graph_edges), start_idx, Len(graph_edges))>>,
                          end_idx, 0 + 1, max_length + 1, <<>>)
         IN  [i \in 1..Len(paths) |-> ids_of(paths[i])]

\* a call of ContextGraph::all_simple_paths
all_simple_paths(start, end, max_length) ==
    /\ UNCHANGED not_graph
    /\ UNCHANGED graph_vars
    /\ last' = [op |-> "all_simple_paths", a1 |-> start, a2 |-> end, res |-> OkResult,
                node |-> NoNode, max_length |-> max_length,
                paths |-> all_simple_paths_of(start, end, max_length)]

\* ContextGraph::is_cyclic: petgraph's is_cyclic_directed, true when some edge
\* leads to a node from which its own source is reached (a self-loop included)
is_cyclic ==
    \E i \in 1..Len(graph_edges) :
        graph_edges[i].node[1] \in dag_reach(graph_edges, {graph_edges[i].node[2]})

\* petgraph::algo::toposort, first pass from one start node: a node met for the
\* first time is marked and its undiscovered successors are pushed (a successor
\* equal to the node itself is a cycle); met again on top of the stack it is
\* popped and, once, finished.
RECURSIVE toposort_visit(_, _, _, _)
toposort_visit(stack, discovered, finished, finish_stack) ==
    IF stack = <<>>
    THEN [cycle |-> FALSE, discovered |-> discovered, finished |-> finished,
          finish_stack |-> finish_stack]
    ELSE LET nx == stack[Len(stack)]
         IN  IF nx \notin discovered
             THEN LET succs == pet_neighbors(endpoints(graph_edges), nx, Len(graph_edges))
                  IN  IF nx \in {succs[i] : i \in 1..Len(succs)}
                      THEN [cycle |-> TRUE, discovered |-> discovered, finished |-> finished,
                            finish_stack |-> finish_stack]
                      ELSE toposort_visit(
                               stack \o SelectSeq(succs, LAMBDA b : b \notin discovered \cup {nx}),
                               discovered \cup {nx}, finished, finish_stack)
             ELSE toposort_visit(pop(stack), discovered, finished \cup {nx},
                                 IF nx \in finished THEN finish_stack
                                 ELSE Append(finish_stack, nx))

\* toposort, first pass: the start nodes are the node indices from the last to
\* the first, those already discovered being passed over
RECURSIVE toposort_first_pass(_, _)
toposort_first_pass(i, state) ==
    IF i = 0 \/ state.cycle THEN state
    ELSE IF i \in state.discovered THEN toposort_first_pass(i - 1, state)
         ELSE toposort_first_pass(i - 1,
                  toposort_visit(<<i>>, state.discovered, state.finished, state.finish_stack))

\* a second pass that finds no cycle
RECURSIVE toposort_second_pass_skipped(_, _, _)
toposort_second_pass_skipped(order, k, discovered) == FALSE

\* toposort, second pass: in the reversed finish order a Dfs of the reversed
\* graph from each node, with one visit map for all of them, may yield the
\* node itself only; a second node is a cycle
RECURSIVE toposort_second_pass(_, _, _)
toposort_second_pass(order, k, discovered) ==
    IF k > Len(order) THEN FALSE
    ELSE LET yielded == pet_dfs(reversed_endpoints(graph_edges), <<order[k]>>,
                                discovered, <<>>)
         IN  IF Len(yielded) > 1 THEN TRUE
             ELSE toposort_second_pass(order, k + 1,
                                       discovered \cup {yielded[i] : i \in 1..Len(yielded)})

\* ContextGraph::topological_sort as a function of the graph
topological_sort_of ==
    LET first == toposort_first_pass(Len(graph_nodes),
                     [cycle |-> FALSE, discovered |-> {}, finished |-> {},
                      finish_stack |-> <<>>])
        order == Reverse(first.finish_stack)
    IN  IF first.cycle \/ toposort_second_pass(order, 1, {})
        THEN [res |-> Err("CycleDetected", 0, ""), sorted |-> <<>>]
        ELSE [res |-> OkResult, sorted |-> ids_of(order)]

\* a call of ContextGraph::topological_sort
topological_sort ==
    /\ UNCHANGED not_graph
    /\ UNCHANGED graph_vars
    /\ LET r == topological_sort_of
       IN  last' = [op |-> "topological_sort", a1 |-> 0, a2 |-> 0, res |-> r.res,
                    node |-> NoNode, sorted |-> r.sorted]

\* a degree that counts each incident edge once
degree_incident_once(node_id) ==
    IF node_id \in DOMAIN node_id_map
    THEN Cardinality({i \in 1..Len(graph_edges) :
                         node_id_map[node_id] \in {graph_edges[i].node[1], graph_edges[i].node[2]}})
    ELSE 0

\* ContextGraph::degree as a function of its argument: the length of the
\* node's incoming edge list plus the length of its outgoing edge list
degree_of(node_id) ==
    IF node_id \in DOMAIN node_id_map
    THEN Cardinality({i \in 1..Len(graph_edges) : graph_edges[i].node[2] = node_id_map[node_id]})
         + Cardinality({i \in 1..Len(graph_edges) : graph_edges[i].node[1] = node_id_map[node_id]})
    ELSE 0

\* a call of ContextGraph::degree
degree(node_id) ==
    /\ UNCHANGED not_graph
    /\ UNCHANGED graph_vars
    /\ last' = [op |-> "degree", a1 |-> node_id, a2 |-> 0, res |-> OkResult,
                node |-> NoNode, count |-> degree_of(node_id)]

GraphAlgoNext ==
    \/ \E value \in PlainNodeValues : add_node(value)
    \/ \E source \in NodeIds, target \in NodeIds, value \in EdgeValues :
          add_edge(source, target, value)
    \/ \E start \in NodeIds, end \in NodeIds, max_length \in MaxLengths :
          all_simple_paths(start, end, max_length)
    \/ topological_sort
    \/ \E node_id \in NodeIds : degree(node_id)

SpecGraphAlgo == Init /\ [][GraphAlgoNext]_vars

\* ---------------------------------------------------------------------
\* Properties of the graph algorithms
\* ---------------------------------------------------------------------
\* there is an edge from the node with id a to the node with id b
HasEdge(a, b) ==
    \E i \in 1..Len(graph_edges) :
        graph_edges[i].w.source = a /\ graph_edges[i].w.target = b

\* the paths from start to end that repeat no node and use at most max_length
\* edges, each the sequence of the ids of its nodes
SimplePaths(start, end, max_length) ==
    IF start \notin LiveNodeIds \/ end \notin LiveNodeIds THEN {}
    ELSE {p \in UNION {[1..n -> LiveNodeIds] : n \in 1..(max_length + 1)} :
            /\ p[1] = start /\ p[Len(p)] = end
            /\ \A i \in 1..Len(p), j \in 1..Len(p) : p[i] = p[j] => i = j
            /\ \A i \in 1..(Len(p) - 1) : HasEdge(p[i], p[i + 1])}

\* C21: all_simple_paths(start, end, max_len) returns exactly the paths from
\* start to end that repeat no node and use at most max_len edges; an unknown
\* start or end gives an empty result.
C21_AllSimplePaths ==
    (last.op = "all_simple_paths")
      => {last.paths[i] : i \in 1..Len(last.paths)}
            = SimplePaths(last.a1, last.a2, last.max_length)

\* the position of a node id in a sequence of ids
PositionIn(seq, id) == CHOOSE i \in 1..Len(seq) : seq[i] = id

\* C22: topological_sort fails with CycleDetected exactly when is_cyclic() is
\* true (a self-loop counts as a cycle); in every other case it returns each
\* node of the graph once, with the source of every edge before its target.
C22_TopologicalSort ==
    (last.op = "topological_sort")
      => /\ (last.res.err = "CycleDetected") <=> is_cyclic
         /\ (\E i \in 1..Len(graph_edges) : graph_edges[i].w.source = graph_edges[i].w.target)
               => last.res.err = "CycleDetected"
         /\ ~is_cyclic
               => /\ last.res.tag = "Ok"
                  /\ Len(last.sorted) = Len(graph_nodes)
                  /\ {last.sorted[i] : i \in 1..Len(last.sorted)} = LiveNodeIds
                  /\ \A i \in 1..Len(graph_edges) :
                        PositionIn(last.sorted, graph_edges[i].w.source)
                          < PositionIn(last.sorted, graph_edges[i].w.target)

\* C22 witness: topological_sort has ordered a graph of two nodes whose edge
\* runs from the node added second to the node added first.
C22_Witness ==
    /\ last.op = "topological_sort" /\ last.res.tag = "Ok"
    /\ Len(graph_nodes) = 2 /\ Len(graph_edges) >= 1
    /\ last.sorted = <<2, 1>>

\* C27: degree(node) is the number of edges whose source is the node plus the
\* number of edges whose target is the node, so a self-loop counts twice and
\* parallel edges count separately; for an id not in the graph it is 0.
C27_Degree ==
    (last.op = "degree")
      => IF last.a1 \in LiveNodeIds
         THEN last.count
                = Cardinality({i \in 1..Len(graph_edges) : graph_edges[i].w.source = last.a1})
                  + Cardinality({i \in 1..Len(graph_edges) : graph_edges[i].w.target = last.a1})
         ELSE last.count = 0

\* C27 witness: degree has returned 3 for a node with a self-loop and one
\* more edge.
C27_Witness ==
    /\ last.op = "degree" /\ last.count = 3
    /\ Len(graph_edges) = 2
    /\ \E i \in 1..2 : graph_edges[i].w.source = last.a1 /\ graph_edges[i].w.target = last.a1

\* ---------------------------------------------------------------------
\* WorkflowGraph (src/src/workflow_graph.rs)
\* ---------------------------------------------------------------------
\* A state is [id, terminal]; a transition is [source, target, accepts, guard]
\* with the ids of its two states and the answers of accepts_input and guard
\* to the one input and the one context of the queries; an edge of the graph
\* is [w |-> transition, node |-> <<source index, target index>>].  A
\* BusinessValue counts its risk_factor in thousandths.

\* BusinessValue::is_better_than: the higher score
is_better_than(v1, v2) ==
    (v1.monetary_value - v1.time_cost - v1.risk_factor)
      > (v2.monetary_value - v2.time_cost - v2.risk_factor)

\* an add_state that never looks the identity up
add_state_always_inserted(state) ==
    [ref |-> Len(wf_states) + 1,
     states |-> Append(wf_states, state),
     state_to_node |-> MapInsert(state_to_node, state.id, Len(wf_states) + 1),
     node_to_state |-> MapInsert(node_to_state, Len(wf_states) + 1, state.id)]

\* WorkflowGraph::add_state as a function: the reference it returns and the
\* node array and the two indices it leaves
add_state_of(state) ==
    IF state.id \in DOMAIN state_to_node
    THEN [ref |-> state_to_node[state.id], states |-> wf_states,
          state_to_node |-> state_to_node, node_to_state |-> node_to_state]
    ELSE [ref |-> Len(wf_states) + 1,
          states |-> Append(wf_states, state),
          state_to_node |-> MapInsert(state_to_node, state.id, Len(wf_states) + 1),
          node_to_state |-> MapInsert(node_to_state, Len(wf_states) + 1, state.id)]

\* a call of WorkflowGraph::add_state
add_state(state) ==
    /\ UNCHANGED not_workflow
    /\ UNCHANGED <<wf_transitions, enrichment>>
    /\ LET r == add_state_of(state)
       IN  /\ wf_states' = r.states
           /\ state_to_node' = r.state_to_node
           /\ node_to_state' = r.node_to_state
           /\ wf_last' = [op |-> "add_state", state |-> state.id, res |-> OkResult,
                          ref |-> r.ref]

\* an add_transition that forgets the enrichment
add_transition_unrecorded(transition, value) ==
    IF transition.source \notin DOMAIN state_to_node
    THEN [res |-> Err("StateNotFound", 0, transition.source),
          transitions |-> wf_transitions, enrichment |-> enrichment]
    ELSE IF transition.target \notin DOMAIN state_to_node
    THEN [res |-> Err("StateNotFound", 0, transition.target),
          transitions |-> wf_transitions, enrichment |-> enrichment]
    ELSE [res |-> OkId(Len(wf_transitions) + 1),
          transitions |-> Append(wf_transitions,
                                 [w |-> transition,
                                  node |-> <<state_to_node[transition.source],
                                             state_to_node[transition.target]>>]),
          enrichment |-> enrichment]

\* WorkflowGraph::add_transition as a function: the result and the edge array
\* and the enrichment map it leaves
add_transition_of(transition, value) ==
    IF transition.source \notin DOMAIN state_to_node
    THEN [res |-> Err("StateNotFound", 0, transition.source),
          transitions |-> wf_transitions, enrichment |-> enrichment]
    ELSE IF transition.target \notin DOMAIN state_to_node
    THEN [res |-> Err("StateNotFound", 0, transition.target),
          transitions |-> wf_transitions, enrichment |-> enrichment]
    ELSE [res |-> OkId(Len(wf_transitions) + 1),
          transitions |-> Append(wf_transitions,
                                 [w |-> transition,
                                  node |-> <<state_to_node[transition.source],
                                             state_to_node[transition.target]>>]),
          enrichment |-> MapInsert(enrichment, Len(wf_transitions) + 1, value)]

\* a call of WorkflowGraph::add_transition
add_transition(transition, value) ==
    /\ Len(wf_transitions) < MaxTransitions
    /\ UNCHANGED not_workflow
    /\ UNCHANGED <<wf_states, state_to_node, node_to_state>>
    /\ LET r == add_transition_of(transition, value)
       IN  /\ wf_transitions' = r.transitions
           /\ enrichment' = r.enrichment
           /\ wf_last' = [op |-> "add_transition", state |-> "", res |-> r.res,
                          ref |-> r.res.id, transition |-> transition, value |-> value]

\* StableGraph::edges(node_idx) filtered as find_transitions filters it: the
\* outgoing edges, the one added last first, that accept the input, pass the
\* guard and have an enrichment.  Call with i = Len(wf_transitions).
RECURSIVE matching_edges(_, _)
matching_edges(node_idx, i) ==
    IF i = 0 THEN <<>>
    ELSE (IF /\ wf_transitions[i].node[1] = node_idx
             /\ wf_transitions[i].w.accepts /\ wf_transitions[i].w.guard
             /\ i \in DOMAIN enrichment
          THEN <<i>> ELSE <<>>) \o matching_edges(node_idx, i - 1)

\* WorkflowGraph::find_transitions as a function: the EdgeIndex of each result
find_transitions_of(state_id) ==
    IF state_id \in DOMAIN state_to_node
    THEN matching_edges(state_to_node[state_id], Len(wf_transitions))
    ELSE <<>>

\* a selection that returns the first of the transitions
RECURSIVE min_by_first(_, _)
min_by_first(best, rest) == best

\* Iterator::min_by with the comparator of find_optimal_transition, which says
\* Less when the kept one is better than the next and Greater in every other
\* case: the kept one stays on Less and is replaced on Greater
RECURSIVE min_by(_, _)
min_by(best, rest) ==
    IF rest = <<>> THEN best
    ELSE IF is_better_than(enrichment[best], enrichment[Head(rest)])
         THEN min_by(best, Tail(rest))
         ELSE min_by(Head(rest), Tail(rest))

\* WorkflowGraph::find_optimal_transition as a function: the EdgeIndex of the
\* transition returned, 0 for None
find_optimal_transition_of(state_id) ==
    LET transitions == find_transitions_of(state_id)
    IN  IF transitions = <<>> THEN 0 ELSE min_by(Head(transitions), Tail(transitions))

\* a call of WorkflowGraph::find_optimal_transition
find_optimal_transition(state_id) ==
    /\ UNCHANGED not_workflow
    /\ UNCHANGED <<wf_states, wf_transitions, enrichment, state_to_node, node_to_state>>
    /\ wf_last' = [op |-> "find_optimal_transition", state |-> state_id, res |-> OkResult,
                   ref |-> find_optimal_transition_of(state_id)]

\* WorkflowGraph::initial_states: the node indices without an incoming edge
initial_states ==
    {idx \in 1..Len(wf_states) :
        \A i \in 1..Len(wf_transitions) : wf_transitions[i].node[2] # idx}

\* WorkflowGraph::has_terminal_states
has_terminal_states == \E idx \in 1..Len(wf_states) : wf_states[idx].terminal

\* a search that reports every state as reachable
find_reachable_states_all == 1..Len(wf_states)

\* WorkflowGraph::find_reachable_states: the keys of the map, every node a Dfs
\* from some initial state yields
find_reachable_states ==
    UNION {LET start_idx == state_to_node[wf_states[idx].id]
               yielded == pet_dfs(endpoints(wf_transitions), <<start_idx>>, {}, <<>>)
           IN  {yielded[i] : i \in 1..Len(yielded)} :
           idx \in {i \in initial_states : wf_states[i].id \in DOMAIN state_to_node}}

\* WorkflowGraph::validate as a function of the graph
validate_of ==
    IF initial_states = {}
    THEN [res |-> Err("NoInitialState", 0, ""), total |-> 0, reachable |-> 0]
    ELSE IF ~has_terminal_states
    THEN [res |-> Err("NoTerminalState", 0, ""), total |-> 0, reachable |-> 0]
    ELSE LET reachable == find_reachable_states
             total_states == Len(wf_states)
         IN  IF Cardinality(reachable) < total_states
             THEN [res |-> Err("UnreachableStates", 0, ""), total |-> total_states,
                   reachable |-> Cardinality(reachable)]
             ELSE [res |-> OkResult, total |-> 0, reachable |-> 0]

\* a call of WorkflowGraph::validate
validate ==
    /\ UNCHANGED not_workflow
    /\ UNCHANGED <<wf_states, wf_transitions, enrichment, state_to_node, node_to_state>>
    /\ LET r == validate_of
       IN  wf_last' = [op |-> "validate", state |-> "", res |-> r.res, ref |-> 0,
                       total |-> r.total, reachable |-> r.reachable]

WorkflowNext ==
    \/ \E state \in WorkflowStates : add_state(state)
    \/ \E source \in StateIds, target \in StateIds, kind \in TransitionKinds,
          value \in BusinessValues :
          add_transition([source |-> source, target |-> target,
                          accepts |-> kind.accepts, guard |-> kind.guard], value)
    \/ \E state_id \in StateIds : find_optimal_transition(state_id)
    \/ validate

SpecWorkflow == Init /\ [][WorkflowNext]_vars

\* ---------------------------------------------------------------------
\* Properties of WorkflowGraph
\* ---------------------------------------------------------------------
\* the states without an incoming transition, and the states to which the
\* transitions lead forward from them
ZeroIncoming ==
    {n \in 1..Len(wf_states) :
        ~\E i \in 1..Len(wf_transitions) : wf_transitions[i].w.target = wf_states[n].id}
ForwardReachable ==
    LET step(S) == S \cup {n \in 1..Len(wf_states) :
                              \E i \in 1..Len(wf_transitions), m \in S :
                                  /\ wf_transitions[i].w.source = wf_states[m].id
                                  /\ wf_transitions[i].w.target = wf_states[n].id}
    IN  step(step(step(ZeroIncoming)))

\* C23: validate fails with NoInitialState when no state has zero incoming
\* transitions, otherwise with NoTerminalState when no state is terminal,
\* otherwise with UnreachableStates{total, reachable}, reachable < total, when
\* some state is not reached forward from the zero-incoming states, and
\* succeeds in every other case.
C23_Validate ==
    (wf_last.op = "validate")
      => IF ZeroIncoming = {} THEN wf_last.res.err = "NoInitialState"
         ELSE IF ~\E n \in 1..Len(wf_states) : wf_states[n].terminal
              THEN wf_last.res.err = "NoTerminalState"
         ELSE IF ForwardReachable # 1..Len(wf_states)
              THEN /\ wf_last.res.err = "UnreachableStates"
                   /\ wf_last.total = Len(wf_states)
                   /\ wf_last.reachable = Cardinality(ForwardReachable)
                   /\ wf_last.reachable < wf_last.total
         ELSE wf_last.res.tag = "Ok"

\* C23 witness: validate has failed with UnreachableStates, one state of two
\* being reachable.
C23_Witness ==
    /\ wf_last.op = "validate" /\ wf_last.res.err = "UnreachableStates"
    /\ wf_last.total = 2 /\ wf_last.reachable = 1

\* C24: add_state with a state whose identity was already added returns the
\* reference of the first call and leaves the number of states, the stored
\* state and all transitions unchanged.
C24_AddStateKnownIdentity ==
    [][(wf_last'.op = "add_state" /\ wf_last'.state \in DOMAIN state_to_node)
         => /\ wf_last'.ref = state_to_node[wf_last'.state]
            /\ wf_states' = wf_states
            /\ wf_transitions' = wf_transitions
            /\ enrichment' = enrichment
            /\ state_to_node' = state_to_node
            /\ node_to_state' = node_to_state]_vars

\* C24 witness: add_state has returned the reference of the first of two
\* states, which only a call with a known identity does.
C24_Witness ==
    /\ wf_last.op = "add_state"
    /\ Len(wf_states) = 2 /\ wf_last.ref = 1
    /\ Len(wf_transitions) >= 1

\* C25: add_transition whose source or target state has not been added fails
\* with StateNotFound naming that state and adds no transition and no
\* enrichment entry; when both states have been added it adds exactly one
\* transition and records the given enrichment for it.
C25_AddTransition ==
    [][(wf_last'.op = "add_transition" /\ wf_last' # wf_last)
         => LET t == wf_last'.transition
                known == {wf_states[n].id : n \in 1..Len(wf_states)}
            IN  IF t.source \notin known \/ t.target \notin known
                THEN /\ wf_last'.res.err = "StateNotFound"
                     /\ wf_last'.res.msg \in {t.source, t.target} \ known
                     /\ wf_transitions' = wf_transitions
                     /\ enrichment' = enrichment
                ELSE /\ wf_last'.res.tag = "Ok"
                     /\ Len(wf_transitions') = Len(wf_transitions) + 1
                     /\ SubSeq(wf_transitions', 1, Len(wf_transitions)) = wf_transitions
                     /\ wf_transitions'[wf_last'.ref].w = t
                     /\ DOMAIN enrichment' = DOMAIN enrichment \cup {wf_last'.ref}
                     /\ wf_last'.ref \notin DOMAIN enrichment
                     /\ enrichment'[wf_last'.ref] = wf_last'.value
                     /\ \A e \in DOMAIN enrichment : enrichment'[e] = enrichment[e]]_vars

\* C25 witness: add_transition has failed with StateNotFound for a target that
\* was not added, its source being a state of the graph.
C25_Witness ==
    /\ wf_last.op = "add_transition" /\ wf_last.res.err = "StateNotFound"
    /\ wf_last.transition.source \in DOMAIN state_to_node
    /\ wf_last.res.msg = wf_last.transition.target
    /\ Len(wf_transitions) >= 1

\* the transitions that leave the state, accept the input and pass the guard
Matching(state_id) ==
    {i \in 1..Len(wf_transitions) :
        /\ wf_transitions[i].w.source = state_id
        /\ wf_transitions[i].w.accepts
        /\ wf_transitions[i].w.guard}

\* C26: find_optimal_transition returns nothing exactly when no outgoing
\* transition of the state accepts the input and passes its guard; otherwise
\* it returns a matching transition such that no other matching transition's
\* enrichment is better than the returned one's.
C26_FindOptimalTransition ==
    (wf_last.op = "find_optimal_transition")
      => /\ (wf_last.ref = 0) <=> (Matching(wf_last.state) = {})
         /\ (wf_last.ref # 0)
               => /\ wf_last.ref \in Matching(wf_last.state)
                  /\ \A j \in Matching(wf_last.state) :
                        ~is_better_than(enrichment[j], enrichment[wf_last.ref])

\* C26 witness: find_optimal_transition has returned the first added of two
\* matching transitions, the second having the worse enrichment.
C26_Witness ==
    /\ wf_last.op = "find_optimal_transition" /\ wf_last.ref = 1
    /\ Matching(wf_last.state) = {1, 2}
    /\ is_better_than(enrichment[1], enrichment[2])
====
